---- MODULE Spec2Model ----
(***************************************************************************)
(* Verification model of sotkalib.                                         *)
(*                                                                         *)
(* Part 1: sotkalib.redis.locker.DistributedLock                           *)
(*         DLSpec    - NumCallers acquire calls on one key                 *)
(*         DLEnvSpec - the same, with one more Redis client that sets and  *)
(*                     deletes the key under its own token                 *)
(* Part 2: sotkalib.redis.lock.redis_context_lock (CLSpec)                 *)
(*                                                                         *)
(* Time is discrete.  One Tick is one unit of wall-clock time; Redis key   *)
(* expiry, asyncio.sleep and time() are all measured in ticks.  Every      *)
(* `await` of the code is a step boundary, so the callers interleave at    *)
(* exactly the places where the asyncio event loop can switch tasks.       *)
(* os.urandom(16) tokens are taken to be distinct per acquire call, so the *)
(* token of a call is the caller's id.                                     *)
(***************************************************************************)
EXTENDS Integers, Sequences, FiniteSets, TLC

(***************************************************************************)
(* Bounds of the model.                                                    *)
(***************************************************************************)
NumCallers == 2
MaxTtl == 2
MaxSpin == 1
MaxWaitTimeout == 2
MaxRetries == 2
MaxMiddlewares == 2
NumFields == 2
MaxObjects == 6
MaxCopies == 1

Callers == 1..NumCallers
NoToken == 0
\* The token of the Redis client that is not one of the callers ("other_holder").
OtherHolder == NumCallers + 1

(***************************************************************************)
(* Redis: one key.  val = NoToken means the key is absent; ttl is the time *)
(* left before the key expires.                                            *)
(***************************************************************************)
AbsentKey == [val |-> NoToken, ttl |-> 0]

\* rc.set(key, token, ex=ttl) without nx: every call sets the key and is truthy.
SetEx(store, token, ttl) ==
    [store |-> [val |-> token, ttl |-> ttl], ok |-> TRUE]

\* rc.set(key, token, nx=True, ex=ttl): sets only an absent key; the reply is
\* truthy exactly when the key was set.
SetNxEx(store, token, ttl) ==
    IF store.val = NoToken
    THEN [store |-> [val |-> token, ttl |-> ttl], ok |-> TRUE]
    ELSE [store |-> store, ok |-> FALSE]

\* _try_acquire: bool(await rc.set(key, token, nx=True, ex=ttl)).
TryAcquire(store, token, ttl) == SetNxEx(store, token, ttl)

\* DEL key, whatever it holds.
Del(store, token) == AbsentKey

\* The release script with the comparison inverted (~= for ==).
ReleaseLuaNe(store, token) ==
    IF store.val # token THEN AbsentKey ELSE store

\* _RELEASE_LUA: delete the key only if it holds the caller's token.
ReleaseLua(store, token) ==
    IF store.val = token THEN AbsentKey ELSE store

\* EXPIRE key ttl, whatever the key holds.
Expire(store, token, ttl) ==
    IF store.val # NoToken
    THEN [store |-> [store EXCEPT !.ttl = ttl], ok |-> TRUE]
    ELSE [store |-> store, ok |-> FALSE]

\* _EXTEND_LUA: expire the key only if it holds the caller's token; the
\* result is truthy exactly when it did.
ExtendLua(store, token, ttl) ==
    IF store.val = token
    THEN [store |-> [val |-> token, ttl |-> ttl], ok |-> TRUE]
    ELSE [store |-> store, ok |-> FALSE]

\* Redis expiry: one unit of time passes for the key.
ExpireStep(store) ==
    IF store.val = NoToken THEN store
    ELSE IF store.ttl <= 1 THEN AbsentKey
    ELSE [store EXCEPT !.ttl = @ - 1]

(***************************************************************************)
(* Backoff functions, in ticks.                                            *)
(***************************************************************************)
BaseDelay == 1
DelayFactor == 2

RECURSIVE Pow(_, _)
Pow(b, e) == IF e <= 0 THEN 1 ELSE b * Pow(b, e - 1)

plain_delay(attempt) == BaseDelay
additive_delay(attempt) == BaseDelay + (attempt - 1) * BaseDelay
exponential_delay(attempt) == BaseDelay * Pow(DelayFactor, attempt - 1)

BackoffKinds == {"plain", "additive", "exponential"}

\* The backoffs with the attempt counted from 0 where the code counts from 1.
BackoffFromZero(kind, attempt) ==
    CASE kind = "plain" -> plain_delay(attempt + 1)
      [] kind = "additive" -> additive_delay(attempt + 1)
      [] OTHER -> exponential_delay(attempt + 1)

Backoff(kind, attempt) ==
    CASE kind = "plain" -> plain_delay(attempt)
      [] kind = "additive" -> additive_delay(attempt)
      [] OTHER -> exponential_delay(attempt)

(***************************************************************************)
(* DistributedLock settings (DLSettings and the ttl argument of acquire).  *)
(* watchdog_factor is validated ge=1; the model takes the factors that     *)
(* divide ttl so that the watchdog interval is a whole number of ticks.    *)
(* A setting that the mode never reads keeps its default: the backoff of a *)
(* lock that does not wait, the watchdog factor of one that does not       *)
(* extend.  The locks use plain_delay or exponential_delay (the default).  *)
(***************************************************************************)
DefaultWatchdogFactor == 3
WatchdogFactors == {1, 2, DefaultWatchdogFactor}

DLSettings ==
    [wait : BOOLEAN, backoff : {"plain", "exponential"}, wait_timeout : {MaxWaitTimeout},
     spin_attempts : 0..MaxSpin, retry_if_acquired : BOOLEAN,
     extend_ttl : BOOLEAN, watchdog_factor : WatchdogFactors, ttl : 1..MaxTtl]

DLConfigs ==
    { c \in DLSettings :
        /\ (c.extend_ttl => c.ttl % c.watchdog_factor = 0)
        /\ (~c.extend_ttl => c.watchdog_factor = DefaultWatchdogFactor)
        /\ (~c.wait => c.backoff = "exponential") }

VARIABLES
    cfg,        \* the settings of the DistributedLock object and the ttl of the calls
    redis,      \* the key in Redis
    pc,         \* where each acquire call is
    acquired,   \* the local `acquired` of each call
    entered,    \* the call reached `yield`
    spinLeft,   \* iterations left in _spin_acquire
    attempt,    \* `attempt` of _wait_acquire
    sleepLeft,  \* time left in asyncio.sleep(backoff) of _wait_acquire
    elapsed,    \* time() - start of _wait_acquire
    wdState,    \* the watchdog task: "none", "sleeping", "returned", "cancelled"
    wdLeft,     \* time left in the watchdog's asyncio.sleep(interval)
    bodyExc,    \* what the body raised ("none" when it returned)
    result,     \* what the caller of acquire saw
    canRetry,   \* can_retry of the ContextLockError raised
    lapsed,     \* history: the key expired while it held this call's token
    sawFree     \* history: the key was absent while this call, having found
                \* it held, was waiting and wait_timeout had not elapsed

dlVars == <<cfg, redis, pc, acquired, entered, spinLeft, attempt, sleepLeft,
            elapsed, wdState, wdLeft, bodyExc, result, canRetry, lapsed, sawFree>>

VARIABLES
    clCfg,      \* the arguments of the redis_context_lock calls
    clRedis,    \* the key in Redis
    clPc,       \* where each redis_context_lock call is
    clAttempt,  \* `attempt` of __wait_till_lock_free
    clSleep,    \* time left in its asyncio.sleep(delay)
    clElapsed,  \* time() - start of __wait_till_lock_free
    clBodyExc,  \* what the body raised ("none" when it returned)
    clResult,   \* what the caller of redis_context_lock saw
    clCanRetry, \* can_retry of the ContextLockError raised
    clLease     \* history: time left of the acquire_timeout of the caller's SET

clVars == <<clCfg, clRedis, clPc, clAttempt, clSleep, clElapsed, clBodyExc,
            clResult, clCanRetry, clLease>>

VARIABLES
    hCfg,          \* ClientSettings of the HTTPSession
    hMws,          \* HTTPSession._middlewares
    hPipeline,     \* the pipeline built by _build_pipeline
    hPc,           \* where the request is
    hAttempt,      \* ctx.attempt
    hDepth,        \* how many middlewares of the pipeline the attempt is inside of
    hLog,          \* what the attempt has run so far
    hSeen,         \* ctx.attempt at each call of the pipeline
    hOutcome,      \* what the core request of the attempt returned or raised
    hErrors,       \* len(ctx.errors)
    hDelay,        \* the delay of the last asyncio.sleep of _handle_retry
    hResult,       \* what the caller of request saw
    hAllRetryable  \* history: every attempt so far ended in a retryable failure

hVars == <<hCfg, hMws, hPipeline, hPc, hAttempt, hDepth, hLog, hSeen, hOutcome,
           hErrors, hDelay, hResult, hAllRetryable>>

VARIABLES
    lruCfg,     \* the settings of the RedisLRU object (_version, _ttl)
    lruStore,   \* Redis: what each cache key holds
    lruPc,      \* where each call of the decorated function is
    lruArg,     \* the argument of the call
    lruGot,     \* cached_result of the call
    lruResult,  \* result of the call (what func returned)
    lruCalls,   \* how many times the call has invoked func
    lruRet      \* what the call returned

lruVars == <<lruCfg, lruStore, lruPc, lruArg, lruGot, lruResult, lruCalls, lruRet>>

VARIABLES
    repoTable,  \* the table of the repository's model: primary key -> row
    repoPrev,   \* history: the table before the last operation
    repoOp,     \* history: the last operation and its arguments
    repoResult  \* what the last operation returned or raised

repoVars == <<repoTable, repoPrev, repoOp, repoResult>>

VARIABLES
    stDecl,      \* the SettingsField declarations of the class, in declaration order
    stEnv,       \* the environment: the string of each field's variable, or NoneValue
    stClsKind,   \* what the class defines under the name "computed"
    stPc,        \* where AppSettings.__init__ is
    stIdx,       \* the field the loop of __init__ (or of __post_init__) is at
    stAttrs,     \* the attributes set on the object
    stDeferred,  \* self.__deferred
    stResult     \* "ok" or the exception construction raised

stVars == <<stDecl, stEnv, stClsKind, stPc, stIdx, stAttrs, stDeferred, stResult>>

VARIABLES
    msHeap,      \* the settings objects that exist, by identity 1..Len(msHeap)
    msLast       \* the last a | b: its operands, its result, the objects before it

msVars == <<msHeap, msLast>>

VARIABLES
    bHeap,       \* the DistributedLock and RedisLRU objects that exist, by identity
    bLast        \* the last builder call: its receiver and the object it returned

bVars == <<bHeap, bLast>>

VARIABLES
    jGraph,      \* the objects reachable from the argument: kind and items of each
    jLimit,      \* _depth_limit
    jStack,      \* the activations of safe_serialize_value, innermost last
    jRet,        \* what the last activation to return returned
    jCut,        \* some activation returned str(obj) for its depth
    jPc          \* "running", or "returned" once the outermost call has returned

jVars == <<jGraph, jLimit, jStack, jRet, jCut, jPc>>

VARIABLES
    tyWant,      \* want_typ
    tyHave,      \* have_typ
    tyStrict,    \* strict
    tyDone,      \* compatible has returned
    tyResult     \* what it returned

tyVars == <<tyWant, tyHave, tyStrict, tyDone, tyResult>>

VARIABLES
    sgProto,     \* the parameters of the protocol's method, self removed, in order
    sgImpl,      \* the parameters of the implementation's method, by name
    sgIdx,       \* the protocol parameter the loop of _check_signatures is at
    sgViols,     \* _viols
    sgDone       \* _check_signatures has returned

sgVars == <<sgProto, sgImpl, sgIdx, sgViols, sgDone>>

VARIABLES
    pmDefined,   \* the CheckableProtocol subclasses defined so far, in order
    pmProtocolCls, \* _CheckableMeta._protocol_cls
    pmLast       \* the last C % P: the class, the protocol written, the result

pmVars == <<pmDefined, pmProtocolCls, pmLast>>

VARIABLES
    kfTtl,    \* self._ttl of the RedisLRU object built from LRUSettings()
    kfNow,    \* the clock that datetime.now() reads
    kfStore,  \* Redis: the entries stored, each with the time it expires at
    kfPc,     \* where the running call of the decorated function is
    kfCur,    \* the running call: its argument, its key, when it was made
    kfCalls   \* history: the calls that have returned, in order

kfVars == <<kfTtl, kfNow, kfStore, kfPc, kfCur, kfCalls>>

VARIABLES
    dfKind,       \* which of defer, defer_ok, defer_exc, defer_exc_mute is entered
    dfToAwait,    \* to_await: the awaitables passed, in the order given
    dfPc,         \* where the `async with` statement is
    dfExit,       \* how the body exited
    dfAwaited,    \* the awaitables awaited so far, in order
    dfOutcome     \* how the `async with` statement ended

dfVars == <<dfKind, dfToAwait, dfPc, dfExit, dfAwaited, dfOutcome>>

VARIABLES
    dbSettings,  \* the DatabaseSettings the Database was built from
    dbLast       \* the last method call on the Database and how it ended

dbVars == <<dbSettings, dbLast>>

VARIABLES
    ssAsync,    \* whether the block is asession_safe (_asafe) or session_safe (_safe)
    ssPc,       \* where the `with` statement is
    ssSession,  \* whether `session` is not None
    ssPending,  \* what the body has added to the session and is not committed
    ssDb,       \* the rows committed to the database
    ssExit,     \* how the body exited
    ssLog,      \* the calls made on the session, in order
    ssOutcome   \* how the `with` statement ended

ssVars == <<ssAsync, ssPc, ssSession, ssPending, ssDb, ssExit, ssLog, ssOutcome>>

vars == <<dlVars, clVars, hVars, lruVars, repoVars, stVars, msVars, bVars, jVars, tyVars, sgVars, pmVars, kfVars, dfVars, dbVars, ssVars>>

\* The steps of one part leave the other parts alone.
DLFrame == UNCHANGED <<clVars, hVars, lruVars, repoVars, stVars, msVars, bVars, jVars, tyVars, sgVars, pmVars, kfVars, dfVars, dbVars, ssVars>>
CLFrame == UNCHANGED <<dlVars, hVars, lruVars, repoVars, stVars, msVars, bVars, jVars, tyVars, sgVars, pmVars, kfVars, dfVars, dbVars, ssVars>>
HFrame == UNCHANGED <<dlVars, clVars, lruVars, repoVars, stVars, msVars, bVars, jVars, tyVars, sgVars, pmVars, kfVars, dfVars, dbVars, ssVars>>
LruFrame == UNCHANGED <<dlVars, clVars, hVars, repoVars, stVars, msVars, bVars, jVars, tyVars, sgVars, pmVars, kfVars, dfVars, dbVars, ssVars>>
RepoFrame == UNCHANGED <<dlVars, clVars, hVars, lruVars, stVars, msVars, bVars, jVars, tyVars, sgVars, pmVars, kfVars, dfVars, dbVars, ssVars>>
StFrame == UNCHANGED <<dlVars, clVars, hVars, lruVars, repoVars, msVars, bVars, jVars, tyVars, sgVars, pmVars, kfVars, dfVars, dbVars, ssVars>>
MsFrame == UNCHANGED <<dlVars, clVars, hVars, lruVars, repoVars, stVars, bVars, jVars, tyVars, sgVars, pmVars, kfVars, dfVars, dbVars, ssVars>>
BFrame == UNCHANGED <<dlVars, clVars, hVars, lruVars, repoVars, stVars, msVars, jVars, tyVars, sgVars, pmVars, kfVars, dfVars, dbVars, ssVars>>
JFrame == UNCHANGED <<dlVars, clVars, hVars, lruVars, repoVars, stVars, msVars, bVars, tyVars, sgVars, pmVars, kfVars, dfVars, dbVars, ssVars>>
TyFrame == UNCHANGED <<dlVars, clVars, hVars, lruVars, repoVars, stVars, msVars, bVars, jVars, sgVars, pmVars, kfVars, dfVars, dbVars, ssVars>>
SgFrame == UNCHANGED <<dlVars, clVars, hVars, lruVars, repoVars, stVars, msVars, bVars, jVars, tyVars, pmVars, kfVars, dfVars, dbVars, ssVars>>
PmFrame == UNCHANGED <<dlVars, clVars, hVars, lruVars, repoVars, stVars, msVars, bVars, jVars, tyVars, sgVars, kfVars, dfVars, dbVars, ssVars>>
KfFrame == UNCHANGED <<dlVars, clVars, hVars, lruVars, repoVars, stVars, msVars, bVars, jVars, tyVars, sgVars, pmVars, dfVars, dbVars, ssVars>>
DfFrame == UNCHANGED <<dlVars, clVars, hVars, lruVars, repoVars, stVars, msVars, bVars, jVars, tyVars, sgVars, pmVars, kfVars, dbVars, ssVars>>
DbFrame == UNCHANGED <<dlVars, clVars, hVars, lruVars, repoVars, stVars, msVars, bVars, jVars, tyVars, sgVars, pmVars, kfVars, dfVars, ssVars>>
SsFrame == UNCHANGED <<dlVars, clVars, hVars, lruVars, repoVars, stVars, msVars, bVars, jVars, tyVars, sgVars, pmVars, kfVars, dfVars, dbVars>>

(***************************************************************************)
(* redis_context_lock: arguments and initial state                         *)
(***************************************************************************)
\* __try_acquire stores the constant "acquired".
AcquiredValue == 1

CLConfigs ==
    [wait_for_lock : BOOLEAN, can_retry_if_lock_catched : BOOLEAN,
     wait_timeout : {MaxWaitTimeout}, acquire_timeout : 1..MaxTtl]

CLInitLocals ==
    /\ clRedis = AbsentKey
    /\ clPc = [p \in Callers |-> "init"]
    /\ clAttempt = [p \in Callers |-> 0]
    /\ clSleep = [p \in Callers |-> 0]
    /\ clElapsed = [p \in Callers |-> 0]
    /\ clBodyExc = [p \in Callers |-> "none"]
    /\ clResult = [p \in Callers |-> "none"]
    /\ clCanRetry = [p \in Callers |-> FALSE]
    /\ clLease = [p \in Callers |-> 0]

CLInit ==
    /\ clCfg \in CLConfigs
    /\ CLInitLocals

\* redis_context_lock is not in use (its defaults, no call made).
CLParked ==
    /\ clCfg = [wait_for_lock |-> FALSE, can_retry_if_lock_catched |-> TRUE,
                wait_timeout |-> MaxWaitTimeout, acquire_timeout |-> MaxTtl]
    /\ CLInitLocals

(***************************************************************************)
(* HTTPSession: settings and initial state                                 *)
(***************************************************************************)
Statuses == {200, 403, 404, 429, 500}
ExceptionKinds == {"TimeoutError", "ContentTypeError", "ValueError"}

\* StatusSettings / ExceptionSettings defaults (of the statuses and exceptions above).
DefaultStatusToRetry == {429, 403}
DefaultStatusToRaise == {403}
DefaultExcToRetry == {"TimeoutError"}
DefaultExcToRaise == {"ContentTypeError"}

\* ClientSettings with its nested StatusSettings and ExceptionSettings.
HConfigs ==
    [maximum_retries : 1..MaxRetries,
     status_to_retry : {DefaultStatusToRetry, {429}},
     status_to_raise : {DefaultStatusToRaise},
     not_found_as_none : BOOLEAN,
     exc_to_retry : {DefaultExcToRetry, {"TimeoutError", "ContentTypeError"}},
     exc_to_raise : {DefaultExcToRaise},
     exc_wrapper : {"None", "WrappedError"},
     unspecified : {"retry", "raise"}]

NoOutcome == [kind |-> "none", val |-> "none"]

HInitLocals ==
    /\ hMws = <<>>
    /\ hPipeline = <<>>
    /\ hPc = "idle"
    /\ hAttempt = 0
    /\ hDepth = 0
    /\ hLog = <<>>
    /\ hSeen = <<>>
    /\ hOutcome = NoOutcome
    /\ hErrors = 0
    /\ hDelay = 0
    /\ hResult = "none"
    /\ hAllRetryable = TRUE

HInit ==
    /\ hCfg \in HConfigs
    /\ HInitLocals

\* HTTPSession is not in use (ClientSettings() with the least maximum_retries).
HParked ==
    /\ hCfg = [maximum_retries |-> 1,
               status_to_retry |-> DefaultStatusToRetry,
               status_to_raise |-> DefaultStatusToRaise,
               not_found_as_none |-> TRUE,
               exc_to_retry |-> DefaultExcToRetry,
               exc_to_raise |-> DefaultExcToRaise,
               exc_wrapper |-> "None",
               unspecified |-> "retry"]
    /\ HInitLocals

(***************************************************************************)
(* RedisLRU: settings and initial state                                    *)
(***************************************************************************)
LruArgs == {1, 2}
LruValues == {"a", "b"}

\* LRUSettings.version: int = 1
DefaultLruVersion == 1

\* keyfunc(self._version, func.__name__, *args, **kwargs) for a key function
\* that depends on nothing else.
CacheKey(version, arg) == <<version, "func", arg>>

LruKeys == {CacheKey(DefaultLruVersion, a) : a \in LruArgs}

\* rc.get of a key that is not there.
NoEntry == [val |-> <<>>, ttl |-> 0]

NoValue == "none"

LruInitLocals ==
    /\ lruStore = [k \in LruKeys |-> NoEntry]
    /\ lruPc = [p \in Callers |-> "idle"]
    /\ lruArg = [p \in Callers |-> 1]
    /\ lruGot = [p \in Callers |-> <<>>]
    /\ lruResult = [p \in Callers |-> NoValue]
    /\ lruCalls = [p \in Callers |-> 0]
    /\ lruRet = [p \in Callers |-> NoValue]

LruInit ==
    /\ lruCfg \in [version : {DefaultLruVersion}, ttl : 1..MaxTtl]
    /\ LruInitLocals

\* RedisLRU is not in use.
LruParked ==
    /\ lruCfg = [version |-> DefaultLruVersion, ttl |-> MaxTtl]
    /\ LruInitLocals

(***************************************************************************)
(* BaseRepository: the table and its initial state                         *)
(***************************************************************************)
\* A model with an autoset integer primary key and two other columns.
RepoPks == {1, 2}
NonPkColumns == {"name", "email"}
ColumnValues == {"x", "y"}

\* session.scalar(select ...) of a primary key that has no row.
NoRow == [c \in NonPkColumns |-> "absent"]

RepoRows == [NonPkColumns -> ColumnValues]

NoOp == [kind |-> "none", ids |-> <<>>, attrs |-> <<>>]

RepoInit ==
    /\ repoTable = [pk \in RepoPks |-> NoRow]
    /\ repoPrev = [pk \in RepoPks |-> NoRow]
    /\ repoOp = NoOp
    /\ repoResult = "none"

\* BaseRepository is not in use.
RepoParked == RepoInit

(***************************************************************************)
(* AppSettings: declarations and initial state                             *)
(***************************************************************************)
NoneValue == "None"
Unset == "unset"

Fields == 1..NumFields

\* SettingsField(default, factory, nullable) under an annotation str or bool.
\* A factory is absent, a callable, or the name "computed".
FieldDecls ==
    [type : {"str", "bool"},
     default : {NoneValue, "from_default"},
     factory : {NoneValue, "callable", "computed"},
     nullable : BOOLEAN]

\* What the class defines under a name: nothing, a plain method, a property.
ClassKinds == {"missing", "method", "property"}

StInitLocals ==
    /\ stPc = "fields"
    /\ stIdx = 1
    /\ stAttrs = [f \in Fields |-> Unset]
    /\ stDeferred = <<>>
    /\ stResult = "none"

StInit ==
    /\ stDecl \in [Fields -> FieldDecls]
    /\ stEnv \in [Fields -> {NoneValue, "Yes"}]
    /\ stClsKind \in ClassKinds
    /\ StInitLocals

\* No AppSettings object is being built.
StParked ==
    /\ stDecl = [f \in Fields |->
                   [type |-> "str", default |-> NoneValue, factory |-> NoneValue,
                    nullable |-> FALSE]]
    /\ stEnv = [f \in Fields |-> NoneValue]
    /\ stClsKind = "missing"
    /\ StInitLocals

(***************************************************************************)
(* Settings models of the HTTP client: objects and initial state           *)
(***************************************************************************)
DefaultMaximumRetries == 3
OtherMaximumRetries == 5

StatusFields == {"not_found_as_none", "unspecified"}
ClientFields == {"maximum_retries", "status_settings"}

\* StatusSettings(**kw): the fields given are model_fields_set, the others
\* take their defaults.
StatusObjects ==
    {o \in [cls : {"StatusSettings"},
            set : SUBSET StatusFields,
            not_found_as_none : BOOLEAN,
            unspecified : {"retry", "raise"}] :
        /\ "not_found_as_none" \notin o.set => o.not_found_as_none = TRUE
        /\ "unspecified" \notin o.set => o.unspecified = "retry"}

\* StatusSettings()
DefaultStatus ==
    [cls |-> "StatusSettings", set |-> {}, not_found_as_none |-> TRUE,
     unspecified |-> "retry"]

\* ClientSettings(**kw) whose status_settings is the object nested: the one
\* given, or the StatusSettings() of the default factory.
ClientObjects(nested) ==
    {o \in [cls : {"ClientSettings"},
            set : SUBSET ClientFields,
            maximum_retries : {DefaultMaximumRetries, OtherMaximumRetries},
            status_settings : {nested}] :
        "maximum_retries" \notin o.set => o.maximum_retries = DefaultMaximumRetries}

NoMerge == [a |-> 0, b |-> 0, r |-> 0, before |-> <<>>]

\* Two StatusSettings, or two ClientSettings with their nested StatusSettings,
\* have been constructed.
MsInit ==
    /\ \/ \E a, b \in StatusObjects : msHeap = <<a, b>>
       \/ \E sa, sb \in StatusObjects :
            \E ca \in ClientObjects(1), cb \in ClientObjects(3) :
              /\ "status_settings" \notin ca.set => sa = DefaultStatus
              /\ "status_settings" \notin cb.set => sb = DefaultStatus
              /\ msHeap = <<sa, ca, sb, cb>>
    /\ msLast = NoMerge

\* No settings object exists.
MsParked ==
    /\ msHeap = <<>>
    /\ msLast = NoMerge

(***************************************************************************)
(* Builder methods of DistributedLock and RedisLRU: objects, initial state *)
(***************************************************************************)
\* DistributedLock(redis_factory): the settings of DLSettings().
NewDistributedLock ==
    [cls |-> "DistributedLock", is_copy |-> FALSE,
     wait |-> FALSE, wait_backoff |-> "_DEFAULT_BACKOFF", wait_timeout |-> 60,
     spin_attempts |-> 0, retry_if_acquired |-> FALSE, exc_args |-> <<>>,
     extend_ttl |-> TRUE, watchdog_factor |-> DefaultWatchdogFactor]

\* RedisLRU(redis_factory): the settings of LRUSettings().
NewRedisLRU ==
    [cls |-> "RedisLRU", is_copy |-> FALSE,
     version |-> DefaultLruVersion, ttl |-> 600, serializer |-> "B64Pickle",
     keyfunc |-> "base_keyfunc"]

NoCall == [o |-> 0, r |-> 0]

\* One object of each class has been constructed.
BInit ==
    /\ bHeap = <<NewDistributedLock, NewRedisLRU>>
    /\ bLast = NoCall

\* No object exists.
BParked ==
    /\ bHeap = <<>>
    /\ bLast = NoCall

(***************************************************************************)
(* safe_serialize_value: inputs and initial state                          *)
(***************************************************************************)
DefaultDepthLimit == 10

JNodes == {"a", "b"}

\* The items of a container (the values of a dict or of an object's __dict__,
\* the members of a list): objects of the graph, the container itself or an
\* object that holds it among them.
ItemLists == {<<>>} \cup {<<x>> : x \in JNodes} \cup {<<x, y>> : x, y \in JNodes}

\* An object is a scalar (None, str, int, ...) or a container.
JObjects ==
    {o \in [kind : {"scalar", "container"}, items : ItemLists] :
        o.kind = "scalar" => o.items = <<>>}

JInitLocals ==
    /\ jStack = <<[obj |-> "a", depth |-> 0, i |-> 1]>>
    /\ jRet = "none"
    /\ jCut = FALSE
    /\ jPc = "running"

\* safe_serialize_value(a) or safe_serialize_value(a, _depth_limit=n)
JInit ==
    /\ jGraph \in [JNodes -> JObjects]
    /\ jLimit \in {0, 1, DefaultDepthLimit}
    /\ JInitLocals

\* No call is in progress.
JParked ==
    /\ jGraph = [n \in JNodes |-> [kind |-> "scalar", items |-> <<>>]]
    /\ jLimit = DefaultDepthLimit
    /\ jStack = <<>>
    /\ jRet = "none"
    /\ jCut = FALSE
    /\ jPc = "returned"

(***************************************************************************)
(* compatible: type forms and initial state                                *)
(***************************************************************************)
\* A type form: a class, a generic alias origin[args], a union, Any, or
\* something else (a TypeVar).
Cls(n) == [k |-> "cls", n |-> n, args |-> <<>>]
Gen(n, args) == [k |-> "gen", n |-> n, args |-> args]
Union(args) == [k |-> "union", n |-> "Union", args |-> args]
AnyType == [k |-> "any", n |-> "Any", args |-> <<>>]
TypeVarT == [k |-> "other", n |-> "T", args |-> <<>>]

Scalars == {Cls("int"), Cls("bool"), Cls("str")}
BareOrigins == {Cls("list"), Cls("Sequence"), Cls("tuple")}

Unions ==
    ({Union(<<a, b>>) : a, b \in Scalars} \ {Union(<<a, a>>) : a \in Scalars})
    \cup {Union(<<Cls("str"), Cls("int"), Cls("bool")>>)}

\* list[int], Sequence[bool], list[Any], tuple[()], tuple[int, str],
\* list[list[int]], list[int | str], ...
Generics ==
    {Gen(o, <<a>>) : o \in {"list", "Sequence"}, a \in Scalars \cup {AnyType}}
    \cup {Gen("tuple", <<>>)}
    \cup {Gen("tuple", <<a>>) : a \in Scalars}
    \cup {Gen("tuple", <<a, b>>) : a, b \in Scalars}
    \cup {Gen("list", <<Gen("list", <<a>>)>>) : a \in Scalars}
    \cup {Gen("list", <<Union(<<Cls("int"), Cls("str")>>)>>)}

TypeForms ==
    Scalars \cup BareOrigins \cup Unions \cup Generics \cup {AnyType, TypeVarT}
    \cup {Union(<<Gen("list", <<Cls("int")>>), Gen("list", <<Cls("bool")>>)>>)}

TyInit ==
    /\ tyWant \in TypeForms
    /\ tyHave \in TypeForms
    /\ tyStrict \in BOOLEAN
    /\ tyDone = FALSE
    /\ tyResult = FALSE

\* No call of compatible.
TyParked ==
    /\ tyWant = AnyType
    /\ tyHave = AnyType
    /\ tyStrict = FALSE
    /\ tyDone = TRUE
    /\ tyResult = TRUE

(***************************************************************************)
(* _check_signatures: signatures and initial state                         *)
(***************************************************************************)
\* inspect.Parameter kinds, in the order a signature lists them.
ParamKinds ==
    <<"POSITIONAL_ONLY", "POSITIONAL_OR_KEYWORD", "VAR_POSITIONAL", "KEYWORD_ONLY",
      "VAR_KEYWORD">>

AllKinds == {ParamKinds[i] : i \in 1..Len(ParamKinds)}

KindRank(kind) == CHOOSE i \in 1..Len(ParamKinds) : ParamKinds[i] = kind

NamedKinds == {"POSITIONAL_ONLY", "POSITIONAL_OR_KEYWORD", "KEYWORD_ONLY"}

\* The protocol's method: (x) or (x, y) with parameters of any kind, in an
\* order def accepts.
ProtoSignatures ==
    {<<[name |-> "x", kind |-> k]>> : k \in AllKinds}
    \cup {sig \in {<<[name |-> "x", kind |-> k1], [name |-> "y", kind |-> k2]>> :
                      k1, k2 \in AllKinds} :
            \/ KindRank(sig[2].kind) > KindRank(sig[1].kind)
            \/ sig[1].kind = sig[2].kind /\ sig[1].kind \in NamedKinds}

\* The implementation's method: x and y absent or of a named kind, with or
\* without *args and **kwargs.
ImplSignatures ==
    [x : NamedKinds \cup {"absent"}, y : NamedKinds \cup {"absent"},
     args : {"VAR_POSITIONAL", "absent"}, kwargs : {"VAR_KEYWORD", "absent"}]

SgInit ==
    /\ sgProto \in ProtoSignatures
    /\ sgImpl \in ImplSignatures
    /\ sgIdx = 1
    /\ sgViols = <<>>
    /\ sgDone = FALSE

\* No signature check.
SgParked ==
    /\ sgProto = <<>>
    /\ sgImpl = [x |-> "absent", y |-> "absent", args |-> "absent", kwargs |-> "absent"]
    /\ sgIdx = 1
    /\ sgViols = <<>>
    /\ sgDone = TRUE

(***************************************************************************)
(* CheckableProtocol: classes and initial state                            *)
(***************************************************************************)
ProtocolNames == {"P1", "P2", "P3"}
MemberNames == {"a", "b"}

\* CheckableProtocol itself, the first class _CheckableMeta creates.
BaseProtocol == [name |-> "CheckableProtocol", members |-> {}]

NoMod == [cls |-> {}, proto |-> "none", result |-> FALSE]

PmInit ==
    /\ pmDefined = <<>>
    /\ pmProtocolCls = BaseProtocol
    /\ pmLast = NoMod

PmParked == PmInit

(***************************************************************************)
(* RedisLRU with the default key function: initial state                   *)
(***************************************************************************)
KfMaxTime == 3
KfMaxCalls == 3

NoCurrent == [arg |-> 0, key |-> <<>>, start |-> 0]

KfInitLocals ==
    /\ kfNow = 0
    /\ kfStore = {}
    /\ kfPc = "idle"
    /\ kfCur = NoCurrent
    /\ kfCalls = <<>>

KfInit ==
    /\ kfTtl \in 1..MaxTtl
    /\ KfInitLocals

\* No function decorated with the default settings is in use.
KfParked ==
    /\ kfTtl = MaxTtl
    /\ KfInitLocals

(***************************************************************************)
(* defer, defer_ok, defer_exc, defer_exc_mute: initial state               *)
(***************************************************************************)
DeferKinds == {"defer", "defer_ok", "defer_exc", "defer_exc_mute"}
Awaitables == {"a1", "a2", "a3"}

\* Any number of distinct awaitables in any order.
AwaitableLists ==
    {<<>>} \cup {<<x>> : x \in Awaitables}
           \cup {s \in Awaitables \X Awaitables : s[1] # s[2]}
           \cup {s \in Awaitables \X Awaitables \X Awaitables :
                    s[1] # s[2] /\ s[1] # s[3] /\ s[2] # s[3]}

\* The body returns, raises an Exception, or raises a BaseException that is
\* not an Exception (asyncio.CancelledError, KeyboardInterrupt).
BodyExits == {"ok", "Exception", "BaseException"}

DfInitLocals ==
    /\ dfPc = "body"
    /\ dfExit = "none"
    /\ dfAwaited = <<>>
    /\ dfOutcome = "none"

DfInit ==
    /\ dfKind \in DeferKinds
    /\ dfToAwait \in AwaitableLists
    /\ DfInitLocals

\* No defer block is in use.
DfParked ==
    /\ dfKind = "defer"
    /\ dfToAwait = <<>>
    /\ DfInitLocals

(***************************************************************************)
(* Database: settings and initial state                                    *)
(***************************************************************************)
DatabaseSettings ==
    [async_driver : {"None", "psycopg"},
     enable_sync_engine : BOOLEAN,
     decl_base : {"None", "Base"},
     implicit_safe : BOOLEAN]

NoDbCall == [method |-> "none", result |-> "none"]

DbInit ==
    /\ dbSettings \in DatabaseSettings
    /\ dbLast = NoDbCall

\* No Database is in use (DatabaseSettings with its defaults).
DbParked ==
    /\ dbSettings = [async_driver |-> "psycopg", enable_sync_engine |-> TRUE,
                     decl_base |-> "None", implicit_safe |-> TRUE]
    /\ dbLast = NoDbCall

(***************************************************************************)
(* Database.session_safe / asession_safe: initial state                    *)
(***************************************************************************)
SsRows == {"r1", "r2"}

SsInitLocals ==
    /\ ssPc = "idle"
    /\ ssSession = FALSE
    /\ ssPending = {}
    /\ ssExit = "none"
    /\ ssLog = <<>>
    /\ ssOutcome = "none"

SsInit ==
    /\ ssAsync \in BOOLEAN
    /\ ssDb \in SUBSET SsRows
    /\ SsInitLocals

\* No safe session is in use.
SsParked ==
    /\ ssAsync = FALSE
    /\ ssDb = {}
    /\ SsInitLocals

\* _watchdog: interval = ttl / self._watchdog_factor
WatchdogInterval(c) == c.ttl \div c.watchdog_factor

(***************************************************************************)
(* DistributedLock.acquire                                                 *)
(***************************************************************************)
DLInit ==
    /\ cfg \in DLConfigs
    /\ redis = AbsentKey
    /\ pc = [p \in Callers |-> "init"]
    /\ acquired = [p \in Callers |-> FALSE]
    /\ entered = [p \in Callers |-> FALSE]
    /\ spinLeft = [p \in Callers |-> 0]
    /\ attempt = [p \in Callers |-> 0]
    /\ sleepLeft = [p \in Callers |-> 0]
    /\ elapsed = [p \in Callers |-> 0]
    /\ wdState = [p \in Callers |-> "none"]
    /\ wdLeft = [p \in Callers |-> 0]
    /\ bodyExc = [p \in Callers |-> "none"]
    /\ result = [p \in Callers |-> "none"]
    /\ canRetry = [p \in Callers |-> FALSE]
    /\ lapsed = [p \in Callers |-> FALSE]
    /\ sawFree = [p \in Callers |-> FALSE]

\* History: after the step, is the key absent while p, having found it held
\* at an earlier attempt, is still waiting within wait_timeout?  Kept until
\* the call has left the body.
ObserveFree ==
    sawFree' = [p \in Callers |->
                  IF pc'[p] \in {"exiting", "done"}
                  THEN FALSE
                  ELSE sawFree[p] \/ (/\ pc'[p] = "wait"
                                      /\ attempt'[p] >= 2
                                      /\ elapsed'[p] <= cfg.wait_timeout
                                      /\ redis'.val = NoToken)]

\* The phase that follows the spin phase (or starts the call when there is none):
\* ph 2 when not waiting, ph 3 (_wait_acquire: start = time(), attempt = 1) otherwise.
AfterSpin(p) ==
    /\ pc' = [pc EXCEPT ![p] = IF cfg.wait THEN "wait" ELSE "single"]
    /\ attempt' = [attempt EXCEPT ![p] = IF cfg.wait THEN 1 ELSE @]
    /\ elapsed' = [elapsed EXCEPT ![p] = 0]
    /\ sleepLeft' = [sleepLeft EXCEPT ![p] = 0]

\* The acquisition phase is over: its locals (the loop counters) are dead.
EndAcquisition(p) ==
    /\ spinLeft' = [spinLeft EXCEPT ![p] = 0]
    /\ attempt' = [attempt EXCEPT ![p] = 0]
    /\ sleepLeft' = [sleepLeft EXCEPT ![p] = 0]

\* acquired = True; the watchdog task is created when extend_ttl; yield.
EnterBody(p) ==
    /\ EndAcquisition(p)
    /\ elapsed' = [elapsed EXCEPT ![p] = 0]
    /\ acquired' = [acquired EXCEPT ![p] = TRUE]
    /\ entered' = [entered EXCEPT ![p] = TRUE]
    /\ pc' = [pc EXCEPT ![p] = "body"]
    /\ wdState' = [wdState EXCEPT ![p] = IF cfg.extend_ttl THEN "sleeping" ELSE "none"]
    /\ wdLeft' = [wdLeft EXCEPT ![p] = IF cfg.extend_ttl THEN WatchdogInterval(cfg) ELSE 0]

\* can_retry = self._retry_if_acquired, in wait mode too.
CanRetryFlagOnly(c) == c.retry_if_acquired

\* DLSettings.retry_if_acquired: bool = False
DefaultRetryIfAcquired == FALSE

\* can_retry of the ContextLockError of a call that did not acquire.
LockErrorCanRetry(c) == IF c.wait THEN FALSE ELSE c.retry_if_acquired

\* A finally block that deletes the key whether or not the call acquired it.
FinallyDelete(store, token, acq) == Del(store, token)

\* The finally block's release: `if acquired: rc.eval(_RELEASE_LUA, 1, key, token)`.
FinallyRelease(store, token, acq) ==
    IF acq THEN ReleaseLua(store, token) ELSE store

\* raise ContextLockError(...), then the finally block of a call whose
\* watchdog is None.
RaiseLockError(p, store) ==
    /\ EndAcquisition(p)
    /\ redis' = FinallyRelease(store, p, acquired[p])
    /\ pc' = [pc EXCEPT ![p] = "failed"]
    /\ result' = [result EXCEPT ![p] = "ContextLockError"]
    /\ canRetry' = [canRetry EXCEPT ![p] = LockErrorCanRetry(cfg)]

\* acquire is entered: `async with self._redis_factory as rc`.
Enter(p) ==
    /\ pc[p] = "init"
    /\ IF cfg.spin_attempts > 0
       THEN /\ pc' = [pc EXCEPT ![p] = "spin"]
            /\ spinLeft' = [spinLeft EXCEPT ![p] = cfg.spin_attempts]
            /\ UNCHANGED <<attempt, elapsed, sleepLeft>>
       ELSE /\ AfterSpin(p)
            /\ UNCHANGED spinLeft
    /\ UNCHANGED <<cfg, redis, acquired, entered, wdState, wdLeft, bodyExc, result,
                   canRetry, lapsed>>
    /\ ObserveFree
    /\ DLFrame

\* ph 1: one iteration of _spin_acquire (try, then asyncio.sleep(0)).
SpinTry(p) ==
    /\ pc[p] = "spin"
    /\ LET r == TryAcquire(redis, p, cfg.ttl) IN
         /\ redis' = r.store
         /\ IF r.ok
            THEN EnterBody(p)
            ELSE /\ spinLeft' = [spinLeft EXCEPT ![p] = @ - 1]
                 /\ IF spinLeft[p] > 1
                    THEN UNCHANGED <<pc, attempt, elapsed, sleepLeft>>
                    ELSE AfterSpin(p)
                 /\ UNCHANGED <<acquired, entered, wdState, wdLeft>>
    /\ UNCHANGED <<cfg, bodyExc, result, canRetry, lapsed>>
    /\ ObserveFree
    /\ DLFrame

\* ph 2: the single attempt of a call that does not wait.
SingleTry(p) ==
    /\ pc[p] = "single"
    /\ LET r == TryAcquire(redis, p, cfg.ttl) IN
         IF r.ok
         THEN /\ redis' = r.store
              /\ EnterBody(p)
              /\ UNCHANGED <<result, canRetry>>
         ELSE /\ RaiseLockError(p, r.store)
              /\ UNCHANGED <<acquired, entered, wdState, wdLeft, elapsed>>
    /\ UNCHANGED <<cfg, bodyExc, lapsed>>
    /\ ObserveFree
    /\ DLFrame

\* ph 3: one iteration of the loop of _wait_acquire.
WaitTry(p) ==
    /\ pc[p] = "wait"
    /\ sleepLeft[p] = 0
    /\ LET r == TryAcquire(redis, p, cfg.ttl) IN
         IF r.ok
         THEN /\ redis' = r.store
              /\ EnterBody(p)
              /\ UNCHANGED <<result, canRetry>>
         ELSE IF elapsed[p] > cfg.wait_timeout
         THEN /\ RaiseLockError(p, r.store)
              /\ UNCHANGED <<acquired, entered, wdState, wdLeft, elapsed>>
         ELSE /\ redis' = r.store
              /\ sleepLeft' = [sleepLeft EXCEPT ![p] = Backoff(cfg.backoff, attempt[p])]
              /\ attempt' = [attempt EXCEPT ![p] = @ + 1]
              /\ UNCHANGED <<pc, acquired, entered, wdState, wdLeft, result, canRetry,
                             spinLeft, elapsed>>
    /\ UNCHANGED <<cfg, bodyExc, lapsed>>
    /\ ObserveFree
    /\ DLFrame

BodyExceptions == {"none", "ValueError"}

\* The body ends (returning, or raising exc); the finally block cancels the
\* watchdog and awaits it.
BodyExit(p, exc) ==
    /\ pc[p] = "body"
    /\ pc' = [pc EXCEPT ![p] = "exiting"]
    /\ bodyExc' = [bodyExc EXCEPT ![p] = exc]
    /\ wdState' = [wdState EXCEPT ![p] = IF @ = "none" THEN "none" ELSE "cancelled"]
    /\ wdLeft' = [wdLeft EXCEPT ![p] = 0]
    /\ UNCHANGED <<cfg, redis, acquired, entered, spinLeft, attempt, sleepLeft,
                   elapsed, result, canRetry, lapsed>>
    /\ ObserveFree
    /\ DLFrame

\* The rest of the finally block: the release, after which the body's
\* exception (if any) propagates.
Release(p) ==
    /\ pc[p] = "exiting"
    /\ redis' = FinallyRelease(redis, p, acquired[p])
    /\ pc' = [pc EXCEPT ![p] = "done"]
    /\ result' = [result EXCEPT ![p] = IF bodyExc[p] = "none" THEN "ok" ELSE bodyExc[p]]
    /\ UNCHANGED <<cfg, acquired, entered, spinLeft, attempt, sleepLeft, elapsed,
                   wdState, wdLeft, bodyExc, canRetry, lapsed>>
    /\ ObserveFree
    /\ DLFrame

\* _watchdog, after asyncio.sleep(interval): rc.eval(_EXTEND_LUA, ...);
\* `if not result: return`.
WatchdogFire(p) ==
    /\ wdState[p] = "sleeping"
    /\ wdLeft[p] = 0
    /\ LET r == ExtendLua(redis, p, cfg.ttl) IN
         /\ redis' = r.store
         /\ IF r.ok
            THEN /\ wdLeft' = [wdLeft EXCEPT ![p] = WatchdogInterval(cfg)]
                 /\ UNCHANGED wdState
            ELSE /\ wdState' = [wdState EXCEPT ![p] = "returned"]
                 /\ UNCHANGED wdLeft
    /\ UNCHANGED <<cfg, pc, acquired, entered, spinLeft, attempt, sleepLeft,
                   elapsed, bodyExc, result, canRetry, lapsed>>
    /\ ObserveFree
    /\ DLFrame

\* A watchdog whose sleep is over runs before more time passes (the event
\* loop resumes a task whose timer is due).
WatchdogDue == \E p \in Callers : wdState[p] = "sleeping" /\ wdLeft[p] = 0

\* So does a waiter whose backoff sleep is over.
WaiterDue == \E p \in Callers : pc[p] = "wait" /\ sleepLeft[p] = 0

Dec(n) == IF n > 0 THEN n - 1 ELSE 0

\* One unit of time passes.
Tick ==
    /\ ~WatchdogDue
    /\ ~WaiterDue
    /\ redis' = ExpireStep(redis)
    /\ lapsed' = [p \in Callers |->
                    lapsed[p] \/ (redis.val = p /\ ExpireStep(redis).val = NoToken)]
    /\ sleepLeft' = [p \in Callers |-> Dec(sleepLeft[p])]
    /\ wdLeft' = [p \in Callers |-> Dec(wdLeft[p])]
    /\ elapsed' = [p \in Callers |->
                     IF pc[p] = "wait" /\ elapsed[p] <= cfg.wait_timeout
                     THEN elapsed[p] + 1 ELSE elapsed[p]]
    /\ UNCHANGED <<cfg, pc, acquired, entered, spinLeft, attempt, wdState,
                   bodyExc, result, canRetry>>
    /\ ObserveFree
    /\ DLFrame

\* The expiries the other client sets: the shortest and the longest.
OtherTtls == {1, MaxTtl}

\* Another Redis client takes the free key under its own token
\* (redis_client.set(key, "other_holder", ex=ttl) on a key nobody holds).
OtherSet(ttl) ==
    /\ redis.val = NoToken
    /\ redis' = SetNxEx(redis, OtherHolder, ttl).store
    /\ UNCHANGED <<cfg, pc, acquired, entered, spinLeft, attempt, sleepLeft, elapsed,
                   wdState, wdLeft, bodyExc, result, canRetry, lapsed>>
    /\ ObserveFree
    /\ DLFrame

\* The other client gives its key up.
OtherRelease ==
    /\ redis.val = OtherHolder
    /\ redis' = ReleaseLua(redis, OtherHolder)
    /\ UNCHANGED <<cfg, pc, acquired, entered, spinLeft, attempt, sleepLeft, elapsed,
                   wdState, wdLeft, bodyExc, result, canRetry, lapsed>>
    /\ ObserveFree
    /\ DLFrame

DLNext ==
    \/ \E p \in Callers : Enter(p)
    \/ \E p \in Callers : SpinTry(p)
    \/ \E p \in Callers : SingleTry(p)
    \/ \E p \in Callers : WaitTry(p)
    \/ \E p \in Callers, exc \in BodyExceptions : BodyExit(p, exc)
    \/ \E p \in Callers : Release(p)
    \/ \E p \in Callers : WatchdogFire(p)
    \/ Tick

DLEnvNext ==
    \/ \E p \in Callers : Enter(p)
    \/ \E p \in Callers : SpinTry(p)
    \/ \E p \in Callers : SingleTry(p)
    \/ \E p \in Callers : WaitTry(p)
    \/ \E p \in Callers, exc \in BodyExceptions : BodyExit(p, exc)
    \/ \E p \in Callers : Release(p)
    \/ \E p \in Callers : WatchdogFire(p)
    \/ Tick
    \/ \E ttl \in OtherTtls : OtherSet(ttl)
    \/ OtherRelease

DLStart == DLInit /\ CLParked /\ HParked /\ LruParked /\ RepoParked /\ StParked /\ MsParked /\ BParked /\ JParked /\ TyParked /\ SgParked /\ PmParked /\ KfParked /\ DfParked /\ DbParked /\ SsParked

DLSpec == DLStart /\ [][DLNext]_vars

\* The callers beside the other client (a waiting lock leaves retry_if_acquired
\* at its default, which it never reads).
DLEnvInit == DLInit /\ CLParked /\ HParked /\ LruParked /\ RepoParked /\ StParked /\ MsParked /\ BParked /\ JParked /\ TyParked /\ SgParked /\ PmParked /\ KfParked /\ DfParked /\ DbParked /\ SsParked /\ (cfg.wait => ~cfg.retry_if_acquired)

DLEnvSpec == DLEnvInit /\ [][DLEnvNext]_vars

(***************************************************************************)
(* Properties of DistributedLock.acquire                                   *)
(***************************************************************************)
InBody == {p \in Callers : pc[p] = "body"}

\* C1: callers that enter acquire on the free key in no-wait mode: exactly
\* one is in the body and every other one has got ContextLockError without
\* entering it (as long as the holder neither left the body nor lost its key);
\* and two callers are in the body together only if the key of one of them
\* expired.
C1_ExactlyOneHolder ==
    /\ \A p, q \in Callers :
         (p # q /\ pc[p] = "body" /\ pc[q] = "body") => (lapsed[p] \/ lapsed[q])
    /\ (/\ ~cfg.wait
        /\ \A p \in Callers : pc[p] \in {"body", "failed"} /\ ~lapsed[p])
       => /\ Cardinality(InBody) = 1
          /\ \A p \in Callers \ InBody :
               result[p] = "ContextLockError" /\ ~entered[p]

C1_Witness ==
    /\ ~cfg.wait
    /\ \E p \in Callers :
         /\ pc[p] = "body" /\ ~lapsed[p] /\ redis.val = p
         /\ \A q \in Callers \ {p} : pc[q] = "failed"

\* C2: the step that ends the finally block of a holder deletes the key when
\* the key holds that holder's token and otherwise leaves the key, its value
\* and its expiry as they were; so the key of a holder that is in the body and
\* has not expired stays.
C2_ReleaseOnlyOwn ==
    /\ [](\A q \in Callers : (pc[q] = "body" /\ ~lapsed[q]) => redis.val = q)
    /\ [][\A p \in Callers :
            (pc[p] = "exiting" /\ pc'[p] = "done")
            => IF redis.val = p THEN redis' = AbsentKey ELSE redis' = redis]_vars

C2_Witness ==
    \E p, q \in Callers :
        /\ p # q
        /\ pc[p] = "done" /\ lapsed[p]
        /\ pc[q] = "body" /\ redis.val = q

\* A step of caller p in the acquisition phase after which p has not acquired:
\* a failed spin iteration, the failed single attempt, a failed retry or the
\* timeout of the wait loop.
FailedAttempt(p) ==
    /\ pc[p] \in {"spin", "single", "wait"}
    /\ ~acquired'[p]
    /\ (pc'[p] # pc[p] \/ spinLeft'[p] # spinLeft[p] \/ attempt'[p] # attempt[p])

\* C3: a failed attempt of acquire, the one that raises ContextLockError
\* included, leaves the key, its value and its expiry unchanged.
C3_FailureLeavesKey ==
    [][\A p \in Callers : FailedAttempt(p) => redis' = redis]_vars

C3_Witness ==
    \E p, q \in Callers :
        /\ p # q
        /\ pc[p] = "failed" /\ result[p] = "ContextLockError"
        /\ pc[q] = "body" /\ redis.val = q

\* C5: once acquire's context has exited, the key does not hold the caller's
\* token, and the caller sees the body's exception (or a normal exit).
C5_ReleasedOnExit ==
    \A p \in Callers :
        pc[p] = "done" =>
            /\ redis.val # p
            /\ (bodyExc[p] = "none" => result[p] = "ok")
            /\ (bodyExc[p] # "none" => result[p] = bodyExc[p])

C5_Witness ==
    \E p \in Callers :
        /\ pc[p] = "done" /\ entered[p]
        /\ bodyExc[p] = "ValueError" /\ result[p] = "ValueError"
        /\ redis.val = NoToken

\* C6: with TTL extension enabled, the key holds the holder's token for as
\* long as the holder is in the body.
C6_KeyHeldWhileInBody ==
    cfg.extend_ttl => \A p \in Callers : pc[p] = "body" => redis.val = p

\* The extension step of p's watchdog.
FireStep(p) ==
    /\ wdState[p] = "sleeping"
    /\ wdLeft[p] = 0
    /\ (wdLeft'[p] > 0 \/ wdState'[p] = "returned")

\* C7: a watchdog runs only while its acquire context is in the body; its
\* extension step sets the expiry of a key that holds its own token and leaves
\* any other key as it is; and the expiry of a key is raised by nothing but the
\* watchdog of the holder whose token it holds.
C7_WatchdogOnlyOwnKey ==
    /\ [](\A p \in Callers : wdState[p] = "sleeping" => pc[p] = "body")
    /\ [][\A p \in Callers :
            FireStep(p) =>
                /\ pc[p] = "body"
                /\ IF redis.val = p
                   THEN redis' = [val |-> p, ttl |-> cfg.ttl]
                   ELSE redis' = redis]_vars
    /\ [][(redis.val # NoToken /\ redis'.val = redis.val /\ redis'.ttl > redis.ttl)
            => (redis.val \in Callers /\ FireStep(redis.val))]_vars

C7_Witness ==
    \E p \in Callers :
        /\ pc[p] = "body" /\ wdState[p] = "returned"
        /\ redis.val = OtherHolder /\ redis.ttl # cfg.ttl

\* C8 as stated: a waiting caller that found the key held does not fail when
\* the key became free before wait_timeout had elapsed.
C8_EntersOnceFree ==
    cfg.wait => \A p \in Callers : pc[p] = "failed" => ~sawFree[p]

\* A step of the loop of _wait_acquire.
WaitStep(p) ==
    /\ pc[p] = "wait"
    /\ sleepLeft[p] = 0
    /\ (pc'[p] # "wait" \/ attempt'[p] # attempt[p])

\* The delays of the three backoffs for attempts 1, 2, 3, ... (in ticks).
ExpectedDelay(kind, n) ==
    CASE kind = "plain" -> 1
      [] kind = "additive" -> n
      [] OTHER -> <<1, 2, 4, 8, 16, 32, 64>>[n]

\* C8, amended: every step of the wait loop is a SET NX; the caller enters the
\* body at the first one that finds the key absent, sleeps the configured
\* backoff after one that finds it set while wait_timeout has not elapsed, and
\* fails only at one that finds it set after wait_timeout has elapsed; the
\* wait loop follows the spin attempts.
C8_EntersAtFreeRetry ==
    /\ [](\A p \in Callers :
            (cfg.wait /\ pc[p] = "failed") => elapsed[p] > cfg.wait_timeout)
    /\ [][\A p \in Callers :
            /\ WaitStep(p) =>
                /\ redis.val = NoToken
                   => (pc'[p] = "body" /\ redis' = [val |-> p, ttl |-> cfg.ttl])
                /\ (redis.val # NoToken /\ elapsed[p] <= cfg.wait_timeout)
                   => /\ pc'[p] = "wait" /\ redis' = redis
                      /\ sleepLeft'[p] = ExpectedDelay(cfg.backoff, attempt[p])
                      /\ attempt'[p] = attempt[p] + 1
                /\ (redis.val # NoToken /\ elapsed[p] > cfg.wait_timeout)
                   => (pc'[p] = "failed" /\ redis' = redis)
            /\ (cfg.wait /\ pc[p] = "spin" /\ pc'[p] # "spin")
               => pc'[p] \in {"body", "wait"}]_vars

C8_Witness ==
    \E p \in Callers :
        /\ cfg.wait
        /\ pc[p] = "body" /\ sawFree[p] /\ redis.val = p
        /\ cfg.spin_attempts > 0

\* C10: a failed acquire raises ContextLockError with can_retry False in wait
\* mode and can_retry equal to retry_if_acquired (False by default) otherwise,
\* and its body was never entered.
C10_CanRetry ==
    \A p \in Callers :
        /\ (pc[p] = "failed") = (result[p] = "ContextLockError")
        /\ pc[p] = "failed" =>
            /\ ~entered[p]
            /\ cfg.wait => canRetry[p] = FALSE
            /\ ~cfg.wait => canRetry[p] = cfg.retry_if_acquired
            /\ cfg.retry_if_acquired = DefaultRetryIfAcquired => canRetry[p] = FALSE

C10_Witness ==
    \E p, q \in Callers :
        /\ cfg.wait /\ cfg.retry_if_acquired
        /\ pc[p] = "failed" /\ ~canRetry[p] /\ ~entered[p]
        /\ pc[q] = "body"

(***************************************************************************)
(* redis_context_lock                                                      *)
(***************************************************************************)
\* DistributedLock is not in use.
DLParked ==
    /\ cfg = [wait |-> FALSE, backoff |-> "exponential", wait_timeout |-> MaxWaitTimeout,
              spin_attempts |-> 0, retry_if_acquired |-> DefaultRetryIfAcquired,
              extend_ttl |-> TRUE, watchdog_factor |-> DefaultWatchdogFactor,
              ttl |-> MaxTtl]
    /\ redis = AbsentKey
    /\ pc = [p \in Callers |-> "init"]
    /\ acquired = [p \in Callers |-> FALSE]
    /\ entered = [p \in Callers |-> FALSE]
    /\ spinLeft = [p \in Callers |-> 0]
    /\ attempt = [p \in Callers |-> 0]
    /\ sleepLeft = [p \in Callers |-> 0]
    /\ elapsed = [p \in Callers |-> 0]
    /\ wdState = [p \in Callers |-> "none"]
    /\ wdLeft = [p \in Callers |-> 0]
    /\ bodyExc = [p \in Callers |-> "none"]
    /\ result = [p \in Callers |-> "none"]
    /\ canRetry = [p \in Callers |-> FALSE]
    /\ lapsed = [p \in Callers |-> FALSE]
    /\ sawFree = [p \in Callers |-> FALSE]

\* __wait_till_lock_free: base_delay = 0.1, max_delay = 5.0, in ticks of 0.1 s.
wait_base_delay == 1
wait_max_delay == 50

Min(a, b) == IF a <= b THEN a ELSE b

\* delay = min(base_delay * (2**attempt), max_delay)
WaitDelay(n) == Min(wait_base_delay * Pow(2, n), wait_max_delay)

\* __try_acquire: bool(await rc.set(key_to_lock, "acquired", nx=True, ex=acquire_timeout))
CLTryAcquire(store, ttl) == SetNxEx(store, AcquiredValue, ttl)

\* The finally block: await rc.delete(key_to_lock).
CLFinallyDelete(store) == AbsentKey

\* redis_context_lock is entered.  With wait_for_lock, __wait_till_lock_free
\* starts (start = time(), attempt = 0); otherwise the try block is next.
CLEnter(p) ==
    /\ clPc[p] = "init"
    /\ clPc' = [clPc EXCEPT ![p] = IF clCfg.wait_for_lock THEN "wait" ELSE "try"]
    /\ clAttempt' = [clAttempt EXCEPT ![p] = 0]
    /\ clElapsed' = [clElapsed EXCEPT ![p] = 0]
    /\ clSleep' = [clSleep EXCEPT ![p] = 0]
    /\ UNCHANGED <<clCfg, clRedis, clBodyExc, clResult, clCanRetry, clLease>>
    /\ CLFrame

\* One evaluation of `while await client.get(key_to_lock) is not None` and the
\* loop body that follows it.  The timeout is raised outside the try block.
CLWaitCheck(p) ==
    /\ clPc[p] = "wait"
    /\ clSleep[p] = 0
    /\ IF clRedis.val = NoToken
       THEN /\ clPc' = [clPc EXCEPT ![p] = "try"]
            /\ clAttempt' = [clAttempt EXCEPT ![p] = 0]
            /\ UNCHANGED <<clSleep, clResult, clCanRetry>>
       ELSE IF clElapsed[p] > clCfg.wait_timeout
       THEN /\ clPc' = [clPc EXCEPT ![p] = "failed"]
            /\ clResult' = [clResult EXCEPT ![p] = "ContextLockError"]
            /\ clCanRetry' = [clCanRetry EXCEPT ![p] = FALSE]
            /\ clAttempt' = [clAttempt EXCEPT ![p] = 0]
            /\ UNCHANGED clSleep
       ELSE /\ clSleep' = [clSleep EXCEPT ![p] = WaitDelay(clAttempt[p])]
            /\ clAttempt' = [clAttempt EXCEPT ![p] = @ + 1]
            /\ UNCHANGED <<clPc, clResult, clCanRetry>>
    /\ UNCHANGED <<clCfg, clRedis, clElapsed, clBodyExc, clLease>>
    /\ CLFrame

\* The try block: __try_acquire; `if not acquired: raise ContextLockError(...)`,
\* which leaves the finally block to run; otherwise yield.
CLTry(p) ==
    /\ clPc[p] = "try"
    /\ LET r == CLTryAcquire(clRedis, clCfg.acquire_timeout) IN
         /\ clRedis' = r.store
         /\ IF r.ok
            THEN /\ clPc' = [clPc EXCEPT ![p] = "body"]
                 /\ clLease' = [clLease EXCEPT ![p] = clCfg.acquire_timeout]
                 /\ UNCHANGED <<clResult, clCanRetry>>
            ELSE /\ clPc' = [clPc EXCEPT ![p] = "raising"]
                 /\ clCanRetry' = [clCanRetry EXCEPT ![p] = clCfg.can_retry_if_lock_catched]
                 /\ UNCHANGED <<clResult, clLease>>
    /\ UNCHANGED <<clCfg, clAttempt, clSleep, clElapsed, clBodyExc>>
    /\ CLFrame

\* The body ends, returning or raising exc.
CLBodyExit(p, exc) ==
    /\ clPc[p] = "body"
    /\ clPc' = [clPc EXCEPT ![p] = "finally"]
    /\ clBodyExc' = [clBodyExc EXCEPT ![p] = exc]
    /\ clLease' = [clLease EXCEPT ![p] = 0]
    /\ UNCHANGED <<clCfg, clRedis, clAttempt, clSleep, clElapsed, clResult, clCanRetry>>
    /\ CLFrame

\* The finally block, after the body or after the failed __try_acquire.
CLFinally(p) ==
    /\ clPc[p] \in {"finally", "raising"}
    /\ clRedis' = CLFinallyDelete(clRedis)
    /\ IF clPc[p] = "raising"
       THEN /\ clPc' = [clPc EXCEPT ![p] = "failed"]
            /\ clResult' = [clResult EXCEPT ![p] = "ContextLockError"]
       ELSE /\ clPc' = [clPc EXCEPT ![p] = "done"]
            /\ clResult' = [clResult EXCEPT ![p] =
                              IF clBodyExc[p] = "none" THEN "ok" ELSE clBodyExc[p]]
    /\ UNCHANGED <<clCfg, clAttempt, clSleep, clElapsed, clBodyExc, clCanRetry, clLease>>
    /\ CLFrame

\* The caller is through with the call and may make another.
CLReturn(p) ==
    /\ clPc[p] \in {"done", "failed"}
    /\ clPc' = [clPc EXCEPT ![p] = "init"]
    /\ clElapsed' = [clElapsed EXCEPT ![p] = 0]
    /\ clBodyExc' = [clBodyExc EXCEPT ![p] = "none"]
    /\ clResult' = [clResult EXCEPT ![p] = "none"]
    /\ clCanRetry' = [clCanRetry EXCEPT ![p] = FALSE]
    /\ UNCHANGED <<clCfg, clRedis, clAttempt, clSleep, clLease>>
    /\ CLFrame

\* A waiter whose sleep is over runs before more time passes.
CLWaiterDue == \E p \in Callers : clPc[p] = "wait" /\ clSleep[p] = 0

\* One unit of time passes.
CLTick ==
    /\ ~CLWaiterDue
    /\ clRedis' = ExpireStep(clRedis)
    /\ clSleep' = [p \in Callers |-> Dec(clSleep[p])]
    /\ clLease' = [p \in Callers |-> Dec(clLease[p])]
    /\ clElapsed' = [p \in Callers |->
                       IF clPc[p] = "wait" /\ clElapsed[p] <= clCfg.wait_timeout
                       THEN clElapsed[p] + 1 ELSE clElapsed[p]]
    /\ UNCHANGED <<clCfg, clPc, clAttempt, clBodyExc, clResult, clCanRetry>>
    /\ CLFrame

CLNext ==
    \/ \E p \in Callers : CLEnter(p)
    \/ \E p \in Callers : CLWaitCheck(p)
    \/ \E p \in Callers : CLTry(p)
    \/ \E p \in Callers, exc \in BodyExceptions : CLBodyExit(p, exc)
    \/ \E p \in Callers : CLFinally(p)
    \/ \E p \in Callers : CLReturn(p)
    \/ CLTick

CLStart == CLInit /\ DLParked /\ HParked /\ LruParked /\ RepoParked /\ StParked /\ MsParked /\ BParked /\ JParked /\ TyParked /\ SgParked /\ PmParked /\ KfParked /\ DfParked /\ DbParked /\ SsParked

CLSpec == CLStart /\ [][CLNext]_vars

(***************************************************************************)
(* Properties of redis_context_lock                                        *)
(***************************************************************************)
\* C4: redis_context_lock is a mutex: two callers are in the body together
\* only if the acquire_timeout of one of them has elapsed since it set the key.
C4_ContextLockMutex ==
    \A p, q \in Callers :
        (p # q /\ clPc[p] = "body" /\ clPc[q] = "body")
        => (clLease[p] = 0 \/ clLease[q] = 0)

\* C9: with wait_for_lock a caller gets ContextLockError only after it has
\* seen the key set for longer than wait_timeout.
C9_ErrorOnlyAfterTimeout ==
    clCfg.wait_for_lock =>
        \A p \in Callers :
            clResult[p] = "ContextLockError" => clElapsed[p] > clCfg.wait_timeout

(***************************************************************************)
(* HTTPSession.request                                                     *)
(***************************************************************************)
Middlewares == 1..MaxMiddlewares

\* The core request at the end of a pipeline.
CoreRequest == 0

RECURSIVE Reversed(_)
Reversed(s) == IF s = <<>> THEN <<>> ELSE Append(Reversed(Tail(s)), Head(s))

\* pipeline = (lambda mw, nxt: lambda c: mw(c, nxt))(middleware, pipeline):
\* a pipeline is the sequence of what is called, outermost first.
RECURSIVE WrapAll(_, _)
WrapAll(mws, pipeline) ==
    IF mws = <<>> THEN pipeline
    ELSE WrapAll(Tail(mws), <<Head(mws)>> \o pipeline)

\* The pipeline built by a loop over self._middlewares, not reversed.
BuildPipelineForward(mws) == WrapAll(mws, <<CoreRequest>>)

\* _build_pipeline: core_request wrapped in reversed(self._middlewares).
BuildPipeline(mws) == WrapAll(Reversed(mws), <<CoreRequest>>)

\* max_attempts without the first attempt counted.
MaxAttemptsRetriesOnly(c) == c.maximum_retries

\* ctx.max_attempts = self.config.maximum_retries + 1
MaxAttempts(c) == c.maximum_retries + 1

MAXIMUM_BACKOFF == 120
ClientBase == 1
ClientBackoff == 2

\* delay = self.config.base * min(MAXIMUM_BACKOFF, self.config.backoff**ctx.attempt)
RetryDelay(n) == ClientBase * Min(MAXIMUM_BACKOFF, Pow(ClientBackoff, n))

\* _handle_status: what the core request returns or raises for a status.
HandleStatus(c, status) ==
    IF status \in c.status_to_retry
    THEN [kind |-> "raise", val |-> "StatusRetryError"]
    ELSE IF status \in c.status_to_raise
    THEN [kind |-> "raise", val |-> "CriticalStatusError"]
    ELSE IF c.not_found_as_none /\ status = 404
    THEN [kind |-> "return", val |-> "None"]
    ELSE [kind |-> "return", val |-> "response"]

\* The except clause of _request_with_retry that catches exception e.
ExceptClause(c, e) ==
    IF e \in (c.exc_to_retry \cup {"StatusRetryError"}) THEN "retry"
    ELSE IF e \in c.exc_to_raise THEN "to_raise"
    ELSE "unspecified"

\* The pipeline is called for attempt n.
StartAttempt(n) ==
    /\ hAttempt' = n
    /\ hPc' = "pipeline"
    /\ hDepth' = 0
    /\ hLog' = <<>>
    /\ hOutcome' = NoOutcome
    /\ hSeen' = Append(hSeen, n)

\* HTTPSession.use: a session with the middleware added after the others.
HUse(m) ==
    /\ hPc = "idle"
    /\ Len(hMws) < MaxMiddlewares
    /\ \A i \in 1..Len(hMws) : hMws[i] # m
    /\ hMws' = Append(hMws, m)
    /\ UNCHANGED <<hCfg, hPipeline, hPc, hAttempt, hDepth, hLog, hSeen, hOutcome,
                   hErrors, hDelay, hResult, hAllRetryable>>
    /\ HFrame

\* request: _create_context, then _request_with_retry up to the first call
\* of the pipeline.
HRequest ==
    /\ hPc = "idle"
    /\ hPipeline' = BuildPipeline(hMws)
    /\ IF 0 < MaxAttempts(hCfg)
       THEN /\ StartAttempt(0)
            /\ UNCHANGED hResult
       ELSE /\ hPc' = "done"
            /\ hResult' = "RanOutOfAttemptsError"
            /\ UNCHANGED <<hAttempt, hDepth, hLog, hOutcome, hSeen>>
    /\ UNCHANGED <<hCfg, hMws, hErrors, hDelay, hAllRetryable>>
    /\ HFrame

\* A middleware is called: its code before `await next(ctx)` runs.
HMiddlewareBefore ==
    /\ hPc = "pipeline"
    /\ hPipeline[hDepth + 1] # CoreRequest
    /\ hLog' = Append(hLog, <<"before", hPipeline[hDepth + 1]>>)
    /\ hDepth' = hDepth + 1
    /\ UNCHANGED <<hCfg, hMws, hPipeline, hPc, hAttempt, hSeen, hOutcome, hErrors,
                   hDelay, hResult, hAllRetryable>>
    /\ HFrame

\* core_request: the session's request raises exc, or answers with a status
\* that _handle_status turns into a return value or an exception.
HCoreRequest(status, exc) ==
    /\ hPc = "pipeline"
    /\ hPipeline[hDepth + 1] = CoreRequest
    /\ hLog' = Append(hLog, <<"request", CoreRequest>>)
    /\ LET out == IF exc = "none" THEN HandleStatus(hCfg, status)
                  ELSE [kind |-> "raise", val |-> exc]
       IN /\ hOutcome' = out
          /\ hPc' = IF out.kind = "return" THEN "returning" ELSE "raising"
    /\ hAllRetryable' = (/\ hAllRetryable
                         /\ IF exc = "none" THEN status \in hCfg.status_to_retry
                            ELSE exc \in hCfg.exc_to_retry)
    /\ UNCHANGED <<hCfg, hMws, hPipeline, hAttempt, hDepth, hSeen, hErrors, hDelay,
                   hResult>>
    /\ HFrame

\* `await next(ctx)` returns in the innermost middleware still running: its
\* code after next runs.
HMiddlewareAfter ==
    /\ hPc = "returning"
    /\ hDepth > 0
    /\ hLog' = Append(hLog, <<"after", hPipeline[hDepth]>>)
    /\ hDepth' = hDepth - 1
    /\ UNCHANGED <<hCfg, hMws, hPipeline, hPc, hAttempt, hSeen, hOutcome, hErrors,
                   hDelay, hResult, hAllRetryable>>
    /\ HFrame

\* The pipeline returned: result = await pipeline(ctx); return result.
HReturn ==
    /\ hPc = "returning"
    /\ hDepth = 0
    /\ hPc' = "done"
    /\ hResult' = hOutcome.val
    /\ UNCHANGED <<hCfg, hMws, hPipeline, hAttempt, hDepth, hLog, hSeen, hOutcome,
                   hErrors, hDelay, hAllRetryable>>
    /\ HFrame

\* _handle_retry: out of attempts, or sleep before the next one.
HandleRetry ==
    IF hAttempt >= hCfg.maximum_retries
    THEN /\ hPc' = "done"
         /\ hResult' = "RanOutOfAttemptsError"
         /\ UNCHANGED hDelay
    ELSE /\ hPc' = "sleeping"
         /\ hDelay' = RetryDelay(hAttempt)
         /\ UNCHANGED hResult

\* The exception leaves the pipeline (the middlewares' code after next does
\* not run) and one except clause of _request_with_retry handles it.
HExcept ==
    /\ hPc = "raising"
    /\ hDepth' = 0
    /\ hErrors' = hErrors + 1
    /\ LET clause == ExceptClause(hCfg, hOutcome.val) IN
         IF clause = "retry" \/ (clause = "unspecified" /\ hCfg.unspecified = "retry")
         THEN HandleRetry
         ELSE /\ hPc' = "done"
              /\ hResult' = IF clause = "to_raise" /\ hCfg.exc_wrapper # "None"
                            THEN hCfg.exc_wrapper ELSE hOutcome.val
              /\ UNCHANGED hDelay
    /\ UNCHANGED <<hCfg, hMws, hPipeline, hAttempt, hLog, hSeen, hOutcome, hAllRetryable>>
    /\ HFrame

\* The sleep of _handle_retry is over: the next iteration of the loop, or the
\* raise after the loop.
HNextAttempt ==
    /\ hPc = "sleeping"
    /\ IF hAttempt + 1 < MaxAttempts(hCfg)
       THEN /\ StartAttempt(hAttempt + 1)
            /\ UNCHANGED hResult
       ELSE /\ hPc' = "done"
            /\ hResult' = "RanOutOfAttemptsError"
            /\ UNCHANGED <<hAttempt, hDepth, hLog, hOutcome, hSeen>>
    /\ UNCHANGED <<hCfg, hMws, hPipeline, hErrors, hDelay, hAllRetryable>>
    /\ HFrame

HNext ==
    \/ \E m \in Middlewares : HUse(m)
    \/ HRequest
    \/ HMiddlewareBefore
    \/ \E status \in Statuses : HCoreRequest(status, "none")
    \/ \E exc \in ExceptionKinds : HCoreRequest(200, exc)
    \/ HMiddlewareAfter
    \/ HReturn
    \/ HExcept
    \/ HNextAttempt

HStart == HInit /\ DLParked /\ CLParked /\ LruParked /\ RepoParked /\ StParked /\ MsParked /\ BParked /\ JParked /\ TyParked /\ SgParked /\ PmParked /\ KfParked /\ DfParked /\ DbParked /\ SsParked

HSpec == HStart /\ [][HNext]_vars

(***************************************************************************)
(* Properties of HTTPSession.request                                       *)
(***************************************************************************)
\* The numbers 0, 1, ..., n - 1 in that order.
UpTo(n) == [i \in 1..n |-> i - 1]

\* C11: while every attempt of a request has ended in a retryable failure, the
\* pipeline has been called with ctx.attempt = 0, 1, 2, ... in that order and
\* never more than maximum_retries + 1 times; the request ends only after
\* exactly maximum_retries + 1 calls, and it ends with RanOutOfAttemptsError.
C11_RetriesThenRanOut ==
    (hPc # "idle" /\ hAllRetryable) =>
        /\ hSeen = UpTo(Len(hSeen))
        /\ Len(hSeen) <= hCfg.maximum_retries + 1
        /\ hPc = "done" =>
            /\ Len(hSeen) = hCfg.maximum_retries + 1
            /\ hResult = "RanOutOfAttemptsError"
            /\ hErrors = hCfg.maximum_retries + 1

C11_Witness ==
    /\ hPc = "done" /\ hAllRetryable
    /\ hResult = "RanOutOfAttemptsError"
    /\ hCfg.maximum_retries > 1
    /\ Len(hSeen) = hCfg.maximum_retries + 1
    /\ Len(hMws) > 0

\* The code before next of the first n middlewares, in the order of use.
BeforeLog(n) == [i \in 1..n |-> <<"before", hMws[i]>>]

\* The code after next of the middlewares from the last down to number n + 1.
AfterLog(n) == [i \in 1..(Len(hMws) - n) |-> <<"after", hMws[Len(hMws) + 1 - i]>>]

Marshal(v) == <<"b64", "pickle", v>>

\* B64Pickle.unmarshal: loads(b64decode(raw_data)).
Unmarshal(raw) == raw[3]

\* rc.set(key, raw) with no expiry (Redis reports the ttl of such a key as -1).
LruSet(store, key, raw, ttl) == [store EXCEPT ![key] = [val |-> raw, ttl |-> -1]]

\* rc.set(cache_func_key, raw, ex=self._ttl)
LruSetEx(store, key, raw, ttl) == [store EXCEPT ![key] = [val |-> raw, ttl |-> ttl]]

\* Redis expiry: one unit of time passes for an entry.
LruExpireStep(e) ==
    IF e = NoEntry \/ e.ttl < 0 THEN e
    ELSE IF e.ttl <= 1 THEN NoEntry
    ELSE [e EXCEPT !.ttl = @ - 1]

\* inner is called: the key is computed and read; a hit returns the
\* unmarshalled bytes.
LruGet(p, arg) ==
    /\ lruPc[p] = "idle"
    /\ lruArg' = [lruArg EXCEPT ![p] = arg]
    /\ lruCalls' = [lruCalls EXCEPT ![p] = 0]
    /\ lruResult' = [lruResult EXCEPT ![p] = NoValue]
    /\ LET cached_result == lruStore[CacheKey(lruCfg.version, arg)].val IN
         /\ lruGot' = [lruGot EXCEPT ![p] = cached_result]
         /\ IF cached_result # NoEntry.val
            THEN /\ lruPc' = [lruPc EXCEPT ![p] = "returned"]
                 /\ lruRet' = [lruRet EXCEPT ![p] = Unmarshal(cached_result)]
            ELSE /\ lruPc' = [lruPc EXCEPT ![p] = "miss"]
                 /\ lruRet' = [lruRet EXCEPT ![p] = NoValue]
    /\ UNCHANGED <<lruCfg, lruStore>>
    /\ LruFrame

\* result = await func(*args, **kwargs)
LruInvoke(p, v) ==
    /\ lruPc[p] = "miss"
    /\ lruPc' = [lruPc EXCEPT ![p] = "computed"]
    /\ lruResult' = [lruResult EXCEPT ![p] = v]
    /\ lruCalls' = [lruCalls EXCEPT ![p] = @ + 1]
    /\ UNCHANGED <<lruCfg, lruStore, lruArg, lruGot, lruRet>>
    /\ LruFrame

\* The result is stored and returned.
LruStoreResult(p) ==
    /\ lruPc[p] = "computed"
    /\ lruStore' = LruSetEx(lruStore, CacheKey(lruCfg.version, lruArg[p]),
                            Marshal(lruResult[p]), lruCfg.ttl)
    /\ lruPc' = [lruPc EXCEPT ![p] = "returned"]
    /\ lruRet' = [lruRet EXCEPT ![p] = lruResult[p]]
    /\ UNCHANGED <<lruCfg, lruArg, lruGot, lruResult, lruCalls>>
    /\ LruFrame

\* The caller has its value and may call again.
LruDone(p) ==
    /\ lruPc[p] = "returned"
    /\ lruPc' = [lruPc EXCEPT ![p] = "idle"]
    /\ UNCHANGED <<lruCfg, lruStore, lruArg, lruGot, lruResult, lruCalls, lruRet>>
    /\ LruFrame

\* One unit of time passes.
LruTick ==
    /\ \E k \in LruKeys : lruStore[k] # NoEntry
    /\ lruStore' = [k \in LruKeys |-> LruExpireStep(lruStore[k])]
    /\ UNCHANGED <<lruCfg, lruPc, lruArg, lruGot, lruResult, lruCalls, lruRet>>
    /\ LruFrame

LruNext ==
    \/ \E p \in Callers, arg \in LruArgs : LruGet(p, arg)
    \/ \E p \in Callers, v \in LruValues : LruInvoke(p, v)
    \/ \E p \in Callers : LruStoreResult(p)
    \/ \E p \in Callers : LruDone(p)
    \/ LruTick

LruStart == LruInit /\ DLParked /\ CLParked /\ HParked /\ RepoParked /\ StParked /\ MsParked /\ BParked /\ JParked /\ TyParked /\ SgParked /\ PmParked /\ KfParked /\ DfParked /\ DbParked /\ SsParked

LruSpec == LruStart /\ [][LruNext]_vars

(***************************************************************************)
(* Properties of RedisLRU                                                  *)
(***************************************************************************)
\* C13: a call that found its key stored returns the unmarshalled stored
\* bytes and has not invoked the function; a call that found it absent invokes
\* the function exactly once, stores marshal(result) under the key with expiry
\* ttl (and touches no other key), and returns the result.
C13_HitOrComputeOnce ==
    /\ [](\A p \in Callers :
            /\ lruPc[p] = "returned" =>
                 IF lruGot[p] # <<>>
                 THEN lruCalls[p] = 0 /\ lruRet[p] = lruGot[p][3]
                 ELSE lruCalls[p] = 1 /\ lruRet[p] = lruResult[p]
            /\ lruCalls[p] <= 1)
    /\ [][\A p \in Callers :
            (lruPc[p] = "computed" /\ lruPc'[p] = "returned") =>
                \A k \in LruKeys :
                    IF k = <<lruCfg.version, "func", lruArg[p]>>
                    THEN lruStore'[k] = [val |-> <<"b64", "pickle", lruResult[p]>>,
                                         ttl |-> lruCfg.ttl]
                    ELSE lruStore'[k] = lruStore[k]]_vars
    /\ [][\A p \in Callers :
            (lruPc[p] = "idle" /\ lruPc'[p] # "idle") =>
                /\ lruGot'[p] = lruStore[<<lruCfg.version, "func", lruArg'[p]>>].val
                /\ lruStore' = lruStore]_vars

C13_Witness ==
    \E p, q \in Callers :
        /\ p # q
        /\ lruPc[p] = "returned" /\ lruGot[p] # <<>> /\ lruCalls[p] = 0
        /\ lruArg[p] = lruArg[q] /\ lruRet[p] = lruResult[q]
        /\ lruPc[q] = "returned" /\ lruGot[q] = <<>> /\ lruCalls[q] = 1

(***************************************************************************)
(* BaseRepository.create, update, delete, delete_many; BasicDBM.merge      *)
(***************************************************************************)
\* The keyword arguments of update: values for some of the columns.
AttrSets == UNION {[cols -> ColumnValues] : cols \in SUBSET NonPkColumns}

\* The orders in which a loop over a set of columns may visit them.
Orders(cols) ==
    {o \in UNION {[1..n -> cols] : n \in {Cardinality(cols)}} :
        \A i, j \in DOMAIN o : i # j => o[i] # o[j]}

\* valid_attrs of merge: the columns that are not an autoset primary key.
ValidAttrs == NonPkColumns

\* The loop `for c in valid_attrs: if getattr(self, c) == attrs[c]:
\* modified_attrs.remove(c)` from position i of the visiting order on.
\* attrs[c] raises KeyError for a column that attrs does not name, and
\* modified_attrs is valid_attrs itself, so a removal makes the loop raise
\* RuntimeError (set changed size during iteration) when it goes on.
RECURSIVE MergeLoop(_, _, _, _)
MergeLoop(row, attrs, order, i) ==
    IF i > Len(order) THEN "ok"
    ELSE IF order[i] \notin DOMAIN attrs THEN "KeyError"
    ELSE IF row[order[i]] = attrs[order[i]] THEN "RuntimeError"
    ELSE MergeLoop(row, attrs, order, i + 1)

\* BasicDBM.merge(strict, **attrs) on an instance: what it raises ("ok" when
\* nothing) and the instance afterwards.
Merge(row, attrs, strict, order) ==
    IF strict /\ ~(DOMAIN attrs \subseteq ValidAttrs)
    THEN [result |-> "AttributeError", row |-> row]
    ELSE LET looped == MergeLoop(row, attrs, order, 1) IN
         IF looped # "ok"
         THEN [result |-> looped, row |-> row]
         ELSE [result |-> "ok",
               row |-> [c \in NonPkColumns |->
                          IF c \in DOMAIN attrs /\ c \in ValidAttrs THEN attrs[c] ELSE row[c]]]

\* delete_many that deletes each instance as soon as it has found it.
RECURSIVE DeleteManyEager(_, _)
DeleteManyEager(table, ids) ==
    IF ids = <<>> THEN [result |-> "ok", table |-> table]
    ELSE IF table[Head(ids)] = NoRow
    THEN [result |-> "NotFoundError", table |-> table]
    ELSE DeleteManyEager([table EXCEPT ![Head(ids)] = NoRow], Tail(ids))

\* delete_many: every instance is looked up (NotFoundError for a missing one)
\* before the first is deleted.
DeleteMany(table, ids) ==
    IF \E i \in DOMAIN ids : table[ids[i]] = NoRow
    THEN [result |-> "NotFoundError", table |-> table]
    ELSE [result |-> "ok",
          table |-> [pk \in RepoPks |->
                       IF \E i \in DOMAIN ids : ids[i] = pk THEN NoRow ELSE table[pk]]]

\* create(**attrs): a row under a primary key that has none.
RepoCreate(pk, row) ==
    /\ repoTable[pk] = NoRow
    /\ repoPrev' = repoTable
    /\ repoTable' = [repoTable EXCEPT ![pk] = row]
    /\ repoOp' = [kind |-> "create", ids |-> <<pk>>, attrs |-> row]
    /\ repoResult' = "ok"
    /\ RepoFrame

\* update(obj_id, **attrs): one, merge(strict=True), flush, refresh.
RepoUpdate(pk, attrs, order) ==
    /\ repoPrev' = repoTable
    /\ repoOp' = [kind |-> "update", ids |-> <<pk>>, attrs |-> attrs]
    /\ IF repoTable[pk] = NoRow
       THEN /\ repoResult' = "NotFoundError"
            /\ UNCHANGED repoTable
       ELSE LET merged == Merge(repoTable[pk], attrs, TRUE, order) IN
              /\ repoResult' = merged.result
              /\ repoTable' = [repoTable EXCEPT ![pk] = merged.row]
    /\ RepoFrame

\* delete(obj_id)
RepoDelete(pk) ==
    /\ repoPrev' = repoTable
    /\ repoOp' = [kind |-> "delete", ids |-> <<pk>>, attrs |-> <<>>]
    /\ IF repoTable[pk] = NoRow
       THEN /\ repoResult' = "NotFoundError"
            /\ UNCHANGED repoTable
       ELSE /\ repoResult' = "ok"
            /\ repoTable' = [repoTable EXCEPT ![pk] = NoRow]
    /\ RepoFrame

\* delete_many(obj_ids)
RepoDeleteMany(ids) ==
    /\ repoPrev' = repoTable
    /\ repoOp' = [kind |-> "delete_many", ids |-> ids, attrs |-> <<>>]
    /\ LET r == DeleteMany(repoTable, ids) IN
         /\ repoResult' = r.result
         /\ repoTable' = r.table
    /\ RepoFrame

\* The lists of primary keys given to delete_many.
IdLists == UNION {[1..n -> RepoPks] : n \in 1..2}

RepoNext ==
    \/ \E pk \in RepoPks, row \in RepoRows : RepoCreate(pk, row)
    \/ \E pk \in RepoPks, attrs \in AttrSets, order \in Orders(ValidAttrs) :
         RepoUpdate(pk, attrs, order)
    \/ \E pk \in RepoPks : RepoDelete(pk)
    \/ \E ids \in IdLists : RepoDeleteMany(ids)

RepoStart == RepoInit /\ DLParked /\ CLParked /\ HParked /\ LruParked /\ StParked /\ MsParked /\ BParked /\ JParked /\ TyParked /\ SgParked /\ PmParked /\ KfParked /\ DfParked /\ DbParked /\ SsParked

RepoSpec == RepoStart /\ [][RepoNext]_vars

(***************************************************************************)
(* Properties of BaseRepository                                            *)
(***************************************************************************)
\* A primary key given to the last operation had no row.
SomeIdMissing == \E i \in DOMAIN repoOp.ids : repoPrev[repoOp.ids[i]] = NoRow

\* C14: update, delete and delete_many raise NotFoundError exactly when a
\* primary key given to them has no row, and then the table is as it was
\* before: delete_many has deleted none of the listed rows.
C14_NotFoundChangesNothing ==
    repoOp.kind \in {"update", "delete", "delete_many"} =>
        /\ SomeIdMissing <=> repoResult = "NotFoundError"
        /\ SomeIdMissing => repoTable = repoPrev

C14_Witness ==
    /\ repoOp.kind = "delete_many"
    /\ repoOp.ids = <<1, 2>>
    /\ repoPrev[1] # NoRow /\ repoPrev[2] = NoRow
    /\ repoResult = "NotFoundError"
    /\ repoTable[1] # NoRow

\* C15: update(pk, **attrs) of an existing row, for values of any subset of the
\* non-primary-key columns, succeeds, sets the named columns to the given
\* values and leaves the other columns and the other rows unchanged.
C15_UpdateSetsNamedOnly ==
    (repoOp.kind = "update" /\ ~SomeIdMissing) =>
        /\ repoResult = "ok"
        /\ \A pk \in RepoPks :
             repoTable[pk] =
                IF pk = repoOp.ids[1]
                THEN [c \in NonPkColumns |->
                        IF c \in DOMAIN repoOp.attrs THEN repoOp.attrs[c]
                        ELSE repoPrev[pk][c]]
                ELSE repoPrev[pk]

(***************************************************************************)
(* AppSettings.__init__                                                    *)
(***************************************************************************)
\* str.lower() of the strings of the environment.
Lower(s) == IF s = "Yes" THEN "yes" ELSE s

\* evaluate_var: bool fields are true for yes/true/1/y, other types convert
\* the string (str(_var) for a str field).
EvaluateVar(type, string_value) ==
    IF type = "bool"
    THEN IF Lower(string_value) \in {"yes", "true", "1", "y"} THEN "True" ELSE "False"
    ELSE string_value

\* __post_init__ without its two checks.
PostInitUnchecked(kind) == "ok"

\* __post_init__: what the checks of a deferred factory name raise.
PostInitCheck(kind) ==
    IF kind = "missing" THEN "AttributeError"
    ELSE IF kind # "property" THEN "TypeError"
    ELSE "ok"

\* __validate_empty_string_value: how a field whose variable is not in the
\* environment is resolved.
ResolveEmpty(decl) ==
    IF decl.default # NoneValue THEN [how |-> "set", val |-> decl.default]
    ELSE IF decl.factory # NoneValue
    THEN IF decl.factory = "callable"
         THEN [how |-> "set", val |-> "from_factory"]
         ELSE [how |-> "defer", val |-> decl.factory]
    ELSE IF decl.nullable THEN [how |-> "set", val |-> NoneValue]
    ELSE [how |-> "raise", val |-> "ValueError"]

\* One iteration of the loop over settings_fields; after the last field
\* __post_init__ is called.
StResolveField ==
    /\ stPc = "fields"
    /\ stIdx <= NumFields
    /\ LET r == IF stEnv[stIdx] # NoneValue
                THEN [how |-> "set", val |-> EvaluateVar(stDecl[stIdx].type, stEnv[stIdx])]
                ELSE ResolveEmpty(stDecl[stIdx])
       IN /\ stAttrs' = IF r.how = "set" THEN [stAttrs EXCEPT ![stIdx] = r.val] ELSE stAttrs
          /\ stDeferred' = IF r.how = "defer" THEN Append(stDeferred, stIdx) ELSE stDeferred
          /\ IF r.how = "raise"
             THEN /\ stPc' = "done"
                  /\ stResult' = r.val
                  /\ UNCHANGED stIdx
             ELSE /\ stPc' = IF stIdx = NumFields THEN "post_init" ELSE "fields"
                  /\ stIdx' = IF stIdx = NumFields THEN 1 ELSE stIdx + 1
                  /\ UNCHANGED stResult
    /\ UNCHANGED <<stDecl, stEnv, stClsKind>>
    /\ StFrame

\* One iteration of the loop of __post_init__ over self.__deferred; after the
\* last one __init__ returns.
StPostInit ==
    /\ stPc = "post_init"
    /\ IF stIdx > Len(stDeferred)
       THEN /\ stPc' = "done"
            /\ stResult' = "ok"
            /\ UNCHANGED <<stIdx, stAttrs>>
       ELSE LET checked == PostInitCheck(stClsKind) IN
            IF checked # "ok"
            THEN /\ stPc' = "done"
                 /\ stResult' = checked
                 /\ UNCHANGED <<stIdx, stAttrs>>
            ELSE /\ stAttrs' = [stAttrs EXCEPT ![stDeferred[stIdx]] = "from_property"]
                 /\ stIdx' = stIdx + 1
                 /\ UNCHANGED <<stPc, stResult>>
    /\ UNCHANGED <<stDecl, stEnv, stClsKind, stDeferred>>
    /\ StFrame

StNext ==
    \/ StResolveField
    \/ StPostInit

StStart == StInit /\ DLParked /\ CLParked /\ HParked /\ LruParked /\ RepoParked /\ MsParked /\ BParked /\ JParked /\ TyParked /\ SgParked /\ PmParked /\ KfParked /\ DfParked /\ DbParked /\ SsParked

StSpec == StStart /\ [][StNext]_vars

(***************************************************************************)
(* Properties of AppSettings                                               *)
(***************************************************************************)
\* C16: a field is resolved in the priority order environment > factory >
\* default: a field whose variable is set has the parsed value of the variable
\* whatever it declares, and a field whose variable is not set and that
\* declares a callable factory and a default has the factory's value.
C16_EnvThenFactoryThenDefault ==
    \A f \in Fields :
        stAttrs[f] # "unset" =>
            /\ stEnv[f] # "None" =>
                 stAttrs[f] = IF stDecl[f].type = "bool" THEN "True" ELSE stEnv[f]
            /\ (/\ stEnv[f] = "None"
                /\ stDecl[f].factory = "callable"
                /\ stDecl[f].default # "None") => stAttrs[f] = "from_factory"

\* The field's factory is the name of a property (of "computed").
NamesProperty(f) == stDecl[f].factory = "computed"

\* The field is resolved through the property: its variable is not set and it
\* declares no default.
ThroughProperty(f) ==
    NamesProperty(f) /\ stEnv[f] = "None" /\ stDecl[f].default = "None"

AllFields(obj) == IF obj.cls = "StatusSettings" THEN StatusFields ELSE ClientFields

\* other.model_fields_set
FieldsSet(obj) == obj.set

\* The loop of _merge_from over the fields named: object.__setattr__ puts
\* other's value on merged and leaves merged.model_fields_set alone.
RECURSIVE SetAttrs(_, _, _)
SetAttrs(merged, other, names) ==
    IF names = {} THEN merged
    ELSE LET field_name == CHOOSE f \in names : TRUE
         IN SetAttrs([merged EXCEPT ![field_name] = other[field_name]], other,
                     names \ {field_name})

\* a | b for two objects of one class: _merge_from.  The deep copy of a
\* copies its nested settings; a nested settings object that b set is merged
\* into that copy by _merge_from, which copies again (the copy no one
\* references any more is not kept in msHeap).
MsMerge(a, b) ==
    /\ msHeap[a].cls = msHeap[b].cls
    /\ LET self == msHeap[a]
           other == msHeap[b]
       IN IF self.cls = "StatusSettings"
          THEN /\ Len(msHeap) < MaxObjects
               /\ msHeap' = Append(msHeap, SetAttrs(self, other, FieldsSet(other)))
               /\ msLast' = [a |-> a, b |-> b, r |-> Len(msHeap) + 1, before |-> msHeap]
          ELSE LET base_value == msHeap[self.status_settings]
                   value == msHeap[other.status_settings]
                   nested == IF "status_settings" \in FieldsSet(other)
                             THEN SetAttrs(base_value, value, FieldsSet(value))
                             ELSE base_value
                   merged == SetAttrs(self, other, FieldsSet(other) \ {"status_settings"})
               IN /\ Len(msHeap) + 1 < MaxObjects
                  /\ msHeap' = msHeap \o
                       <<nested, [merged EXCEPT !.status_settings = Len(msHeap) + 1]>>
                  /\ msLast' = [a |-> a, b |-> b, r |-> Len(msHeap) + 2, before |-> msHeap]
    /\ MsFrame

MsNext ==
    \E a, b \in 1..Len(msHeap) : MsMerge(a, b)

MsStart == MsInit /\ DLParked /\ CLParked /\ HParked /\ LruParked /\ RepoParked /\ StParked /\ BParked /\ JParked /\ TyParked /\ SgParked /\ PmParked /\ KfParked /\ DfParked /\ DbParked /\ SsParked

MsSpec == MsStart /\ [][MsNext]_vars

(***************************************************************************)
(* Properties of the settings merge                                        *)
(***************************************************************************)
\* The value the rule gives a field: b's if b set it, else a's.
RuleValue(a, b, f) == IF f \in b.set THEN b[f] ELSE a[f]

\* C18: after a | b on two settings objects of one class, the result is an
\* object that did not exist before, every object that existed before (a and
\* b among them) is as it was, every plain field of the result has b's value
\* if b set it and a's value otherwise, and the nested settings of the result
\* are a new object that follows the same rule for the nested settings of a
\* and b when b set the nested field, and has the values of a's otherwise.
C18_MergeTakesSetFields ==
    msLast.r # 0 =>
        LET before == msLast.before
            a == before[msLast.a]
            b == before[msLast.b]
            r == msHeap[msLast.r]
        IN /\ msLast.r > Len(before)
           /\ SubSeq(msHeap, 1, Len(before)) = before
           /\ r.cls = a.cls
           /\ IF a.cls = "StatusSettings"
              THEN \A f \in StatusFields : r[f] = RuleValue(a, b, f)
              ELSE /\ r.maximum_retries = RuleValue(a, b, "maximum_retries")
                   /\ r.status_settings > Len(before)
                   /\ LET na == before[a.status_settings]
                          nb == before[b.status_settings]
                          nr == msHeap[r.status_settings]
                      IN \A f \in StatusFields :
                           nr[f] = IF "status_settings" \in b.set
                                   THEN RuleValue(na, nb, f)
                                   ELSE na[f]

C18_Witness ==
    /\ msLast.r # 0
    /\ msHeap[msLast.r].cls = "ClientSettings"
    /\ LET a == msHeap[msLast.a]
           b == msHeap[msLast.b]
           r == msHeap[msLast.r]
       IN /\ "status_settings" \in b.set
          /\ msHeap[b.status_settings].set = {"unspecified"}
          /\ msHeap[b.status_settings].unspecified = "raise"
          /\ msHeap[a.status_settings].not_found_as_none = FALSE
          /\ msHeap[a.status_settings].unspecified = "retry"
          /\ msHeap[r.status_settings].not_found_as_none = FALSE
          /\ msHeap[r.status_settings].unspecified = "raise"

(***************************************************************************)
(* Builder methods of DistributedLock and RedisLRU                         *)
(***************************************************************************)
\* The objects made by copy().
Copies == {i \in 1..Len(bHeap) : bHeap[i].is_copy}

\* A builder that assigns to self whatever _is_copy says.
BuiltInPlace(heap, o, updated) == [heap EXCEPT ![o] = updated]

\* The body every builder shares: on an object that is not a copy, copy(self),
\* mark the copy and assign to it; on a copy, assign to self.  updated is the
\* receiver with the builder's assignments.
Built(heap, o, updated) ==
    IF ~heap[o].is_copy
    THEN Append(heap, [updated EXCEPT !.is_copy = TRUE])
    ELSE [heap EXCEPT ![o] = updated]

\* What the builder returns: new, or self.
Returned(heap, o) == IF ~heap[o].is_copy THEN Len(heap) + 1 ELSE o

\* The call of a builder on object o of class cls.
BuilderCall(o, cls, updated) ==
    /\ o \in 1..Len(bHeap)
    /\ bHeap[o].cls = cls
    /\ bHeap[o].is_copy \/ Cardinality(Copies) < MaxCopies
    /\ bHeap' = Built(bHeap, o, updated)
    /\ bLast' = [o |-> o, r |-> Returned(bHeap, o)]
    /\ BFrame

no_wait(o) ==
    BuilderCall(o, "DistributedLock", [bHeap[o] EXCEPT !.wait = FALSE])

wait(o, backoff, timeout) ==
    BuilderCall(o, "DistributedLock",
        [bHeap[o] EXCEPT !.wait = TRUE, !.wait_backoff = backoff, !.wait_timeout = timeout])

spin(o, attempts) ==
    BuilderCall(o, "DistributedLock", [bHeap[o] EXCEPT !.spin_attempts = attempts])

if_taken(o, retry) ==
    BuilderCall(o, "DistributedLock", [bHeap[o] EXCEPT !.retry_if_acquired = retry])

extend(o, enabled, watchdog_factor) ==
    BuilderCall(o, "DistributedLock",
        [bHeap[o] EXCEPT !.extend_ttl = enabled, !.watchdog_factor = watchdog_factor])

exc(o, args) ==
    BuilderCall(o, "DistributedLock", [bHeap[o] EXCEPT !.exc_args = args])

ttl(o, t) ==
    BuilderCall(o, "RedisLRU", [bHeap[o] EXCEPT !.ttl = t])

version(o, ver) ==
    BuilderCall(o, "RedisLRU", [bHeap[o] EXCEPT !.version = ver])

serializer(o, szr) ==
    BuilderCall(o, "RedisLRU", [bHeap[o] EXCEPT !.serializer = szr])

keyfunc(o, kf) ==
    BuilderCall(o, "RedisLRU", [bHeap[o] EXCEPT !.keyfunc = kf])

Objects == 1..Len(bHeap)

BNext ==
    \/ \E o \in Objects : no_wait(o)
    \/ \E o \in Objects :
         \/ wait(o, "_DEFAULT_BACKOFF", 60)
         \/ wait(o, "plain_delay", 5)
    \/ \E o \in Objects, attempts \in {1, 2} : spin(o, attempts)
    \/ \E o \in Objects, retry \in BOOLEAN : if_taken(o, retry)
    \/ \E o \in Objects, enabled \in BOOLEAN : extend(o, enabled, IF enabled THEN 3 ELSE 2)
    \/ \E o \in Objects : exc(o, <<"busy">>)
    \/ \E o \in Objects : ttl(o, 300)
    \/ \E o \in Objects : version(o, 5)
    \/ \E o \in Objects : serializer(o, "JsonSerializer")
    \/ \E o \in Objects : keyfunc(o, "custom_keyfunc")

BStart == BInit /\ DLParked /\ CLParked /\ HParked /\ LruParked /\ RepoParked /\ StParked /\ MsParked /\ JParked /\ TyParked /\ SgParked /\ PmParked /\ KfParked /\ DfParked /\ DbParked /\ SsParked

BSpec == BStart /\ [][BNext]_vars

(***************************************************************************)
(* Properties of the builder methods                                       *)
(***************************************************************************)
\* C19: in every call of a builder method of DistributedLock or RedisLRU, if
\* the receiver was made by the constructor the method returns an object
\* that did not exist before, marked as a copy, and every object that existed
\* (the receiver among them) keeps all its settings; if the receiver was
\* returned by a builder, the method returns the receiver, creates no object
\* and changes no other object.
C19_CopyOnceThenInPlace ==
    [][LET o == bLast'.o
           r == bLast'.r
       IN IF ~bHeap[o].is_copy
          THEN /\ r = Len(bHeap) + 1
               /\ Len(bHeap') = r
               /\ SubSeq(bHeap', 1, Len(bHeap)) = bHeap
               /\ bHeap'[r].is_copy
               /\ bHeap'[r].cls = bHeap[o].cls
          ELSE /\ r = o
               /\ Len(bHeap') = Len(bHeap)
               /\ bHeap'[o].is_copy
               /\ \A i \in 1..Len(bHeap) : i # o => bHeap'[i] = bHeap[i]]_vars

\* The copy that wait() returned was changed in place by spin(); the
\* original still has the constructor's settings.
C19_Witness ==
    /\ bLast.o # 0
    /\ bLast.r = bLast.o
    /\ bHeap[bLast.r].cls = "DistributedLock"
    /\ bHeap[bLast.r].wait
    /\ bHeap[bLast.r].spin_attempts = 2
    /\ bHeap[1] = NewDistributedLock

(***************************************************************************)
(* safe_serialize_value                                                    *)
(***************************************************************************)
\* A depth test that lets one more level through.
DepthExceededLate(depth, limit) == depth > limit + 1

\* if _depth > _depth_limit
DepthExceeded(depth, limit) == depth > limit

\* The innermost activation.
Top == jStack[Len(jStack)]

\* `return` of the innermost activation; the outermost one returns to the
\* caller.
JReturn(ret) ==
    /\ jStack' = SubSeq(jStack, 1, Len(jStack) - 1)
    /\ jRet' = ret
    /\ jPc' = IF Len(jStack) = 1 THEN "returned" ELSE "running"

\* return str(obj)
JDepthExceeded ==
    /\ jPc = "running"
    /\ DepthExceeded(Top.depth, jLimit)
    /\ JReturn("str")
    /\ jCut' = TRUE
    /\ UNCHANGED <<jGraph, jLimit>>
    /\ JFrame

\* The cases that do not recurse: val = obj (isoformat, float, ...).
JScalar ==
    /\ jPc = "running"
    /\ ~DepthExceeded(Top.depth, jLimit)
    /\ jGraph[Top.obj].kind = "scalar"
    /\ JReturn("value")
    /\ UNCHANGED <<jGraph, jLimit, jCut>>
    /\ JFrame

\* The comprehension of a container case calls safe_serialize_value on its
\* next item with _depth + 1.
JRecurse ==
    /\ jPc = "running"
    /\ ~DepthExceeded(Top.depth, jLimit)
    /\ jGraph[Top.obj].kind = "container"
    /\ Top.i <= Len(jGraph[Top.obj].items)
    /\ jStack' = Append([jStack EXCEPT ![Len(jStack)].i = Top.i + 1],
                        [obj |-> jGraph[Top.obj].items[Top.i], depth |-> Top.depth + 1,
                         i |-> 1])
    /\ UNCHANGED <<jGraph, jLimit, jRet, jCut, jPc>>
    /\ JFrame

\* The comprehension is exhausted: val is the dict or list built.
JCollect ==
    /\ jPc = "running"
    /\ ~DepthExceeded(Top.depth, jLimit)
    /\ jGraph[Top.obj].kind = "container"
    /\ Top.i > Len(jGraph[Top.obj].items)
    /\ JReturn("collection")
    /\ UNCHANGED <<jGraph, jLimit, jCut>>
    /\ JFrame

JNext ==
    \/ JDepthExceeded
    \/ JScalar
    \/ JRecurse
    \/ JCollect

JStart == JInit /\ DLParked /\ CLParked /\ HParked /\ LruParked /\ RepoParked /\ StParked /\ MsParked /\ BParked /\ TyParked /\ SgParked /\ PmParked /\ KfParked /\ DfParked /\ DbParked /\ SsParked

\* A call that has not returned takes its next step.
JSpec == JStart /\ [][JNext]_vars /\ WF_vars(JNext)

(***************************************************************************)
(* Properties of safe_serialize_value                                      *)
(***************************************************************************)
\* C20: safe_serialize_value returns for every input, self-referencing
\* objects included: no activation is deeper than the depth limit plus one,
\* an activation deeper than the limit has not recursed and the step it takes
\* is to return str(obj), and the outermost call eventually returns.
C20_ReturnsWithinDepth ==
    /\ [](\A k \in 1..Len(jStack) :
            /\ jStack[k].depth = k - 1
            /\ jStack[k].depth <= jLimit + 1
            /\ jStack[k].depth > jLimit => (k = Len(jStack) /\ jStack[k].i = 1))
    /\ [][(jPc = "running" /\ Top.depth > jLimit) =>
            (jRet' = "str" /\ Len(jStack') = Len(jStack) - 1)]_vars
    /\ <>(jPc = "returned")

\* A list that contains itself twice was serialized under the default limit:
\* the call returned and the depth test cut the recursion.
C20_Witness ==
    /\ jPc = "returned"
    /\ jCut
    /\ jLimit = 10
    /\ jGraph["a"] = [kind |-> "container", items |-> <<"a", "a">>]
    /\ jRet = "collection"

(***************************************************************************)
(* compatible                                                              *)
(***************************************************************************)
\* issubclass(have, want) on the classes of the model: bool < int and
\* list < Sequence.
IsSubclass(have, want) ==
    \/ have = want
    \/ have = "bool" /\ want = "int"
    \/ have = "list" /\ want = "Sequence"

\* typing.get_origin: None for what is not an alias.
Origin(typ) == IF typ.k \in {"gen", "union"} THEN typ.n ELSE "None"

\* _is_union(origin)
IsUnion(typ) == typ.k = "union"

\* The members of a tuple of type arguments.
Members(args) == {args[i] : i \in 1..Len(args)}

RECURSIVE Compatible(_, _, _)

\* A generic check that wants the paired arguments equal.
GenericInvariant(swtyp, shtyp, strict) ==
    IF swtyp.args = <<>> /\ shtyp.args # <<>> THEN TRUE
    ELSE IF swtyp.args # <<>> /\ shtyp.args = <<>> THEN FALSE
    ELSE \A i \in 1..Min(Len(swtyp.args), Len(shtyp.args)) : swtyp.args[i] = shtyp.args[i]

\* _generic_compat: zip(strict=False) pairs the arguments up to the shorter
\* tuple.
GenericCompat(swtyp, shtyp, strict) ==
    IF swtyp.args = <<>> /\ shtyp.args # <<>> THEN TRUE
    ELSE IF swtyp.args # <<>> /\ shtyp.args = <<>> THEN FALSE
    ELSE \A i \in 1..Min(Len(swtyp.args), Len(shtyp.args)) :
            Compatible(swtyp.args[i], shtyp.args[i], strict)

\* A both-unions check that runs over the members of have first.
BothUnionsHaveFirst(swtyp, shtyp, strict) ==
    \A t \in Members(shtyp.args) : \E p \in Members(swtyp.args) : Compatible(p, t, strict)

\* all(any(compatible(p, t) for t in shtyp.args) for p in swtyp.args)
BothUnions(swtyp, shtyp, strict) ==
    \A p \in Members(swtyp.args) : \E t \in Members(shtyp.args) : Compatible(p, t, strict)

\* compatible(want_typ, have_typ, strict=strict) for a want_typ that is not a
\* protocol class.  `is` on two equal forms: the same object, or two aliases
\* built alike, for which the branches below give True as well.
Compatible(want_typ, have_typ, strict) ==
    IF want_typ = have_typ \/ want_typ.k = "any" \/ have_typ.k = "any" THEN TRUE
    ELSE IF IsUnion(want_typ) /\ IsUnion(have_typ)
    THEN BothUnions(want_typ, have_typ, strict)
    ELSE IF IsUnion(have_typ) /\ ~IsUnion(want_typ)
    THEN \A h \in Members(have_typ.args) : Compatible(want_typ, h, strict)
    ELSE IF IsUnion(want_typ) /\ ~IsUnion(have_typ)
    THEN \E w \in Members(want_typ.args) : Compatible(w, have_typ, strict)
    ELSE IF Origin(want_typ) # "None" /\ Origin(want_typ) = Origin(have_typ)
    THEN GenericCompat(want_typ, have_typ, strict)
    ELSE IF /\ Origin(want_typ) # "None"
            /\ Origin(have_typ) # "None"
            /\ IsSubclass(Origin(have_typ), Origin(want_typ))
    THEN GenericCompat(want_typ, have_typ, strict)
    ELSE IF /\ Origin(want_typ) # "None"
            /\ Origin(have_typ) = "None"
            /\ have_typ.k = "cls" /\ Origin(want_typ) = have_typ.n
    THEN FALSE
    ELSE IF /\ Origin(want_typ) = "None"
            /\ want_typ.k = "cls" /\ Origin(have_typ) = want_typ.n
    THEN TRUE
    ELSE IF want_typ.k = "cls" /\ have_typ.k = "cls"
    THEN IsSubclass(have_typ.n, want_typ.n)
    ELSE ~strict

\* compatible(want, have, strict=strict)
TyCompatible ==
    /\ ~tyDone
    /\ tyDone' = TRUE
    /\ tyResult' = Compatible(tyWant, tyHave, tyStrict)
    /\ UNCHANGED <<tyWant, tyHave, tyStrict>>
    /\ TyFrame

TyNext == TyCompatible

TyStart == TyInit /\ DLParked /\ CLParked /\ HParked /\ LruParked /\ RepoParked /\ StParked /\ MsParked /\ BParked /\ JParked /\ SgParked /\ PmParked /\ KfParked /\ DfParked /\ DbParked /\ SsParked

TySpec == TyStart /\ [][TyNext]_vars

(***************************************************************************)
(* Properties of compatible                                                *)
(***************************************************************************)
\* The form is an alias with type arguments.
Parameterized(typ) == typ.k = "gen" /\ typ.args # <<>>

\* C21: for parameterized generics want and have with equal origins, or with
\* have's origin a subclass of want's, compatible(want, have) is the
\* conjunction of compatible over the paired type arguments, lenient or
\* strict; a bare want accepts a parameterized have of its origin, and a
\* parameterized want rejects its bare origin.
C21_GenericsByArguments ==
    tyDone =>
        /\ (/\ Parameterized(tyWant) /\ Parameterized(tyHave)
            /\ IsSubclass(tyHave.n, tyWant.n)) =>
              (tyResult <=>
                 \A i \in 1..Len(tyWant.args) :
                    i <= Len(tyHave.args) =>
                       Compatible(tyWant.args[i], tyHave.args[i], tyStrict))
        /\ (tyWant.k = "cls" /\ Parameterized(tyHave) /\ tyHave.n = tyWant.n) => tyResult
        /\ (Parameterized(tyWant) /\ tyHave.k = "cls" /\ tyHave.n = tyWant.n) => ~tyResult

\* list[bool] was accepted for Sequence[int] in strict mode.
C21_Witness ==
    /\ tyDone
    /\ tyStrict
    /\ tyWant = [k |-> "gen", n |-> "Sequence", args |-> <<[k |-> "cls", n |-> "int", args |-> <<>>]>>]
    /\ tyHave = [k |-> "gen", n |-> "list", args |-> <<[k |-> "cls", n |-> "bool", args |-> <<>>]>>]
    /\ tyResult

\* C22: with neither type Any (and want not a protocol): a union have
\* against a want that is no union is compatible exactly when every member of
\* have is compatible with want; a have that is no union against a union want
\* exactly when have is compatible with some member of want; two unions
\* exactly when every member of want is compatible with some member of have.
C22_UnionRules ==
    (tyDone /\ tyWant.k # "any" /\ tyHave.k # "any") =>
        /\ (tyHave.k = "union" /\ tyWant.k # "union") =>
              (tyResult <=>
                 \A i \in 1..Len(tyHave.args) : Compatible(tyWant, tyHave.args[i], tyStrict))
        /\ (tyWant.k = "union" /\ tyHave.k # "union") =>
              (tyResult <=>
                 \E i \in 1..Len(tyWant.args) : Compatible(tyWant.args[i], tyHave, tyStrict))
        /\ (tyWant.k = "union" /\ tyHave.k = "union") =>
              (tyResult <=>
                 \A i \in 1..Len(tyWant.args) :
                    \E j \in 1..Len(tyHave.args) :
                       Compatible(tyWant.args[i], tyHave.args[j], tyStrict))

\* str | int | bool was accepted for int | str, and the other way round it
\* was rejected.
C22_Witness ==
    /\ tyDone
    /\ tyWant.k = "union" /\ tyHave.k = "union"
    /\ Len(tyWant.args) = 2 /\ Len(tyHave.args) = 3
    /\ tyWant.args[1].n = "int" /\ tyWant.args[2].n = "str"
    /\ tyResult

(***************************************************************************)
(* _check_signatures                                                       *)
(***************************************************************************)
NoViolation == [what |-> "none", name |-> "none"]

\* any(p.kind == kind for p in _typparam.values())
ContainsKind(typparam, kind) == \E n \in DOMAIN typparam : typparam[n] = kind

\* A check in which *args absorbs a keyword-only parameter too.
MissingPattrAnyVariadic(typparam, pparam) ==
    IF pparam.kind \in {"POSITIONAL_OR_KEYWORD", "KEYWORD_ONLY"}
    THEN IF ~(ContainsKind(typparam, "VAR_POSITIONAL") \/ ContainsKind(typparam, "VAR_KEYWORD"))
         THEN [what |-> "expected parameter", name |-> pparam.name]
         ELSE NoViolation
    ELSE [what |-> "expected parameter", name |-> pparam.name]

\* _missing_pattr
MissingPattr(typparam, pparam) ==
    LET _contains_posvar == ContainsKind(typparam, "VAR_POSITIONAL")
        _contains_kwargs == ContainsKind(typparam, "VAR_KEYWORD")
    IN IF pparam.kind = "POSITIONAL_OR_KEYWORD"
       THEN IF ~(_contains_posvar \/ _contains_kwargs)
            THEN [what |-> "expected parameter", name |-> pparam.name]
            ELSE NoViolation
       ELSE IF pparam.kind = "KEYWORD_ONLY"
       THEN IF ~_contains_kwargs
            THEN [what |-> "expected keyword parameter", name |-> pparam.name]
            ELSE NoViolation
       ELSE [what |-> "expected parameter", name |-> pparam.name]

\* _check_param_kind
CheckParamKind(tkind, pparam) ==
    IF ~(\/ pparam.kind = tkind
         \/ pparam.kind = "POSITIONAL_OR_KEYWORD" /\ tkind = "POSITIONAL_ONLY")
    THEN [what |-> "expected kind", name |-> pparam.name]
    ELSE NoViolation

\* One iteration of `for pattr, pparam in _protoparam.items()`.  The
\* parameters carry no annotations.
SgCheckParam ==
    /\ ~sgDone
    /\ sgIdx <= Len(sgProto)
    /\ LET pparam == sgProto[sgIdx]
           viol == IF sgImpl[pparam.name] = "absent"
                   THEN MissingPattr(sgImpl, pparam)
                   ELSE CheckParamKind(sgImpl[pparam.name], pparam)
       IN sgViols' = IF viol = NoViolation THEN sgViols ELSE Append(sgViols, viol)
    /\ sgIdx' = sgIdx + 1
    /\ UNCHANGED <<sgProto, sgImpl, sgDone>>
    /\ SgFrame

\* return [v for v in _viols if v is not None] (strict is False, the methods
\* declare no return type).
SgReturn ==
    /\ ~sgDone
    /\ sgIdx > Len(sgProto)
    /\ sgDone' = TRUE
    /\ UNCHANGED <<sgProto, sgImpl, sgIdx, sgViols>>
    /\ SgFrame

SgNext ==
    \/ SgCheckParam
    \/ SgReturn

SgStart == SgInit /\ DLParked /\ CLParked /\ HParked /\ LruParked /\ RepoParked /\ StParked /\ MsParked /\ BParked /\ JParked /\ TyParked /\ PmParked /\ KfParked /\ DfParked /\ DbParked /\ SsParked

SgSpec == SgStart /\ [][SgNext]_vars

(***************************************************************************)
(* Properties of the signature check                                       *)
(***************************************************************************)
\* A violation for the parameter was reported.
Reported(name) == \E i \in 1..Len(sgViols) : sgViols[i].name = name

\* C23: for a parameter of the protocol's method that the implementation's
\* method lacks, once the check has passed it, no violation is reported
\* exactly when the parameter is POSITIONAL_OR_KEYWORD and the implementation
\* has *args or **kwargs, or it is KEYWORD_ONLY and the implementation has
\* **kwargs.
C23_MissingAbsorbed ==
    \A i \in 1..Len(sgProto) :
        (i < sgIdx /\ sgImpl[sgProto[i].name] = "absent") =>
            (~Reported(sgProto[i].name) <=>
                \/ /\ sgProto[i].kind = "POSITIONAL_OR_KEYWORD"
                   /\ (sgImpl.args # "absent" \/ sgImpl.kwargs # "absent")
                \/ /\ sgProto[i].kind = "KEYWORD_ONLY"
                   /\ sgImpl.kwargs # "absent")

\* The protocol declares (x, *, y); the implementation is (*args): x is
\* absorbed and y is reported.
C23_Witness ==
    /\ sgDone
    /\ Len(sgProto) = 2
    /\ sgProto[1].kind = "POSITIONAL_OR_KEYWORD"
    /\ sgProto[2].kind = "KEYWORD_ONLY"
    /\ sgImpl = [x |-> "absent", y |-> "absent", args |-> "VAR_POSITIONAL", kwargs |-> "absent"]
    /\ ~Reported("x")
    /\ Reported("y")

(***************************************************************************)
(* _CheckableMeta                                                          *)
(***************************************************************************)
\* implements(cls, proto, early=True) for classes and protocols that are
\* sets of member names: every member of the protocol is a member of the
\* class.
ImplementsEarly(cls, proto) == proto.members \subseteq cls

DefinedNames == {pmDefined[i].name : i \in 1..Len(pmDefined)}

\* class P(CheckableProtocol): ...  -- _CheckableMeta.__new__ stores the new
\* class on the metaclass.
PmDefine(name, members) ==
    /\ name \notin DefinedNames
    /\ pmDefined' = Append(pmDefined, [name |-> name, members |-> members])
    /\ pmProtocolCls' = [name |-> name, members |-> members]
    /\ UNCHANGED pmLast
    /\ PmFrame

\* C % P -- _CheckableMeta.__rmod__(P, C): P has no attribute _protocol_cls of
\* its own, so self._protocol_cls is the attribute of the metaclass.
PmMod(cls, i) ==
    /\ pmLast' = [cls |-> cls, proto |-> pmDefined[i].name,
                  result |-> ImplementsEarly(cls, pmProtocolCls)]
    /\ UNCHANGED <<pmDefined, pmProtocolCls>>
    /\ PmFrame

PmNext ==
    \/ \E name \in ProtocolNames, members \in SUBSET MemberNames : PmDefine(name, members)
    \/ \E cls \in SUBSET MemberNames, i \in 1..Len(pmDefined) : PmMod(cls, i)

PmStart == PmInit /\ DLParked /\ CLParked /\ HParked /\ LruParked /\ RepoParked /\ StParked /\ MsParked /\ BParked /\ JParked /\ TyParked /\ SgParked /\ KfParked /\ DfParked /\ DbParked /\ SsParked

PmSpec == PmStart /\ [][PmNext]_vars

(***************************************************************************)
(* Properties of CheckableProtocol                                         *)
(***************************************************************************)
\* C28: the result of C % P is implements(C, P, early=True) for the protocol
\* P written on the right-hand side, whatever other CheckableProtocol
\* subclasses have been defined before or after P.
C28_ModChecksWrittenProtocol ==
    pmLast.proto # "none" =>
        \A i \in 1..Len(pmDefined) :
            pmDefined[i].name = pmLast.proto =>
                (pmLast.result <=> pmDefined[i].members \subseteq pmLast.cls)


\* C24: once _handle_status has raised exc_to_raise for a status in
\* status_settings.to_raise, the request ends on that attempt with that
\* exception: it neither sleeps for a retry nor starts another attempt nor
\* ends with another exception.
C24_ToRaiseStatusEndsRequest ==
    (hPc # "idle" /\ hOutcome.val = "CriticalStatusError") =>
        \/ hPc = "raising"
        \/ hPc = "done" /\ hResult = "CriticalStatusError"

(***************************************************************************)
(* RedisLRU with LRUSettings(): keyfunc = base_keyfunc                     *)
(***************************************************************************)
\* base_keyfunc: f"{version}_{datetime.now().isoformat()}_{func_name}_
\* {B64Pickle.marshal((args, kwargs))}"
BaseKeyfunc(ver, now, func_name, arg) ==
    <<ver, now, func_name, Marshal(<<arg>>)>>

\* rc.get(key) at time now: the value of the unexpired entry, or None.
KfLookup(store, key, now) ==
    {e \in store : e.key = key /\ e.exp > now}

\* rc.set(key, raw, ex=ttl) at time now.
KfSetEx(store, key, raw, ex, now) ==
    {e \in store : e.key # key} \cup {[key |-> key, val |-> raw, exp |-> now + ex]}

\* func(*args): the wrapped function.
KfFunc(arg) == <<"result", arg>>

\* datetime.now() advances.
KfTick ==
    /\ kfNow < KfMaxTime
    /\ kfNow' = kfNow + 1
    /\ UNCHANGED <<kfTtl, kfStore, kfPc, kfCur, kfCalls>>
    /\ KfFrame

\* inner is called: the key is computed from the clock and read; a hit returns.
KfGet(arg) ==
    /\ kfPc = "idle"
    /\ Len(kfCalls) < KfMaxCalls
    /\ LET cache_func_key == BaseKeyfunc(DefaultLruVersion, kfNow, "func", arg) IN
         IF KfLookup(kfStore, cache_func_key, kfNow) # {}
         THEN /\ kfCalls' = Append(kfCalls, [arg |-> arg, start |-> kfNow,
                                             invoked |-> FALSE, stored |-> kfNow])
              /\ UNCHANGED <<kfPc, kfCur>>
         ELSE /\ kfPc' = "miss"
              /\ kfCur' = [arg |-> arg, key |-> cache_func_key, start |-> kfNow]
              /\ UNCHANGED kfCalls
    /\ UNCHANGED <<kfTtl, kfNow, kfStore>>
    /\ KfFrame

\* result = await func(*args, **kwargs)
KfInvoke ==
    /\ kfPc = "miss"
    /\ kfPc' = "computed"
    /\ UNCHANGED <<kfTtl, kfNow, kfStore, kfCur, kfCalls>>
    /\ KfFrame

\* The result is stored under the key computed at the start and returned.
KfStoreResult ==
    /\ kfPc = "computed"
    /\ kfStore' = KfSetEx(kfStore, kfCur.key, Marshal(KfFunc(kfCur.arg)), kfTtl, kfNow)
    /\ kfCalls' = Append(kfCalls, [arg |-> kfCur.arg, start |-> kfCur.start,
                                   invoked |-> TRUE, stored |-> kfNow])
    /\ kfPc' = "idle"
    /\ kfCur' = NoCurrent
    /\ UNCHANGED <<kfTtl, kfNow>>
    /\ KfFrame

KfNext ==
    \/ KfTick
    \/ \E arg \in LruArgs : KfGet(arg)
    \/ KfInvoke
    \/ KfStoreResult

KfStart == KfInit /\ DLParked /\ CLParked /\ HParked /\ LruParked /\ RepoParked /\ StParked /\ MsParked /\ BParked /\ JParked /\ TyParked /\ SgParked /\ PmParked /\ DfParked /\ DbParked /\ SsParked

KfSpec == KfStart /\ [][KfNext]_vars

(***************************************************************************)
(* Properties of RedisLRU with the default settings                        *)
(***************************************************************************)
\* C25: with the default key function, of two calls with equal arguments, the
\* second made after the first has stored its result and before ttl has
\* elapsed since then, only the first invokes the wrapped function.
C25_SecondCallHits ==
    \A i, j \in 1..Len(kfCalls) :
        (/\ i < j
         /\ kfCalls[i].arg = kfCalls[j].arg
         /\ kfCalls[i].invoked
         /\ kfCalls[j].start < kfCalls[i].stored + kfTtl) =>
            ~kfCalls[j].invoked

\* C26: calls for one cache key that overlap in time invoke the wrapped
\* function at most once between them.
C26_OverlappingInvokeOnce ==
    \A p, q \in Callers :
        (/\ p # q
         /\ lruArg[p] = lruArg[q]
         /\ lruPc[p] \in {"miss", "computed"}
         /\ lruPc[q] \in {"miss", "computed"}) =>
            lruCalls[p] + lruCalls[q] <= 1

(***************************************************************************)
(* defer, defer_ok, defer_exc, defer_exc_mute                              *)
(***************************************************************************)
\* Every block awaits its awaitables however the body exits.
DeferRunsAlways(kind, exit) == TRUE

\* Whether the block reaches its `await _await(to_await)` for this exit of
\* the body: finally / else / except: / except Exception.
DeferRuns(kind, exit) ==
    CASE kind = "defer" -> TRUE
      [] kind = "defer_ok" -> exit = "ok"
      [] kind = "defer_exc" -> exit # "ok"
      [] kind = "defer_exc_mute" -> exit = "Exception"

\* How the `async with` statement ends once the block is through: the body's
\* exception propagates (finally, `raise`, or no matching except clause)
\* unless `except Exception` of defer_exc_mute caught it.
DeferOutcome(kind, exit) ==
    IF exit = "ok" THEN "returned"
    ELSE IF kind = "defer_exc_mute" /\ exit = "Exception" THEN "returned"
    ELSE exit

\* The block is through with nothing left to await.
DfFinish(kind, exit) ==
    /\ dfPc' = "done"
    /\ dfOutcome' = DeferOutcome(kind, exit)

\* The body exits: control returns to the generator at its yield.
DfBodyExit(exit) ==
    /\ dfPc = "body"
    /\ dfExit' = exit
    /\ IF DeferRuns(dfKind, exit) /\ dfToAwait # <<>>
       THEN /\ dfPc' = "awaiting"
            /\ UNCHANGED dfOutcome
       ELSE DfFinish(dfKind, exit)
    /\ UNCHANGED <<dfKind, dfToAwait, dfAwaited>>
    /\ DfFrame

\* _await: for a in to_await: await a
DfAwait ==
    /\ dfPc = "awaiting"
    /\ dfAwaited' = Append(dfAwaited, dfToAwait[Len(dfAwaited) + 1])
    /\ IF Len(dfAwaited) + 1 = Len(dfToAwait)
       THEN DfFinish(dfKind, dfExit)
       ELSE UNCHANGED <<dfPc, dfOutcome>>
    /\ UNCHANGED <<dfKind, dfToAwait, dfExit>>
    /\ DfFrame

DfNext ==
    \/ \E exit \in BodyExits : DfBodyExit(exit)
    \/ DfAwait

DfStart == DfInit /\ DLParked /\ CLParked /\ HParked /\ LruParked /\ RepoParked /\ StParked /\ MsParked /\ BParked /\ JParked /\ TyParked /\ SgParked /\ PmParked /\ KfParked /\ DbParked /\ SsParked

DfSpec == DfStart /\ [][DfNext]_vars

(***************************************************************************)
(* Properties of the defer blocks                                          *)
(***************************************************************************)
\* What a block has awaited once it is through: all of them or none.
AwaitedIf(cond) == dfAwaited = IF cond THEN dfToAwait ELSE <<>>

AsyncMethods == {"acreate", "adrop", "__aenter__"}
SyncMethods == {"create", "drop", "__enter__"}
SyncProperties == {"asession_unsafe", "asession_safe", "session"}

\* A function as written in the class body: no check of the engine before it.
Func(name) ==
    [name |-> name, coroutine |-> name \in AsyncMethods, check |-> "none"]

\* functools.wraps(wrapped)(wrapper) is update_wrapper(wrapper, wrapped): it
\* copies the names and docs of wrapped onto wrapper and returns wrapper.
Wraps(wrapped, wrapper) == wrapper

\* _raise_on_uninitialized: _awrap / _swrap check the engine and then call
\* func; what is returned is functools.wraps(_awrap)(func), resp.
\* functools.wraps(_swrap)(func).
RaiseOnUninitialized(func) ==
    IF func.coroutine
    THEN LET _awrap == [func EXCEPT !.check = "async"] IN Wraps(_awrap, func)
    ELSE LET _swrap == [func EXCEPT !.check = "sync"] IN Wraps(_swrap, func)

\* Database.__init__: self._async_enabled, self._sync_enabled.
AsyncEnabled(s) == s.async_driver # "None"
SyncEnabled(s) == s.enable_sync_engine

\* The bodies of the methods. The slots _sync_engine, _sync_session_factory,
\* _async_engine and _async_session_factory are assigned only when their
\* engine is enabled; reading an unassigned slot raises AttributeError.
Body(s, name) ==
    CASE name \in {"__enter__", "__aenter__"} -> "self"
      [] name \in {"create", "drop"} ->
            IF s.decl_base = "None" THEN "ValueError"
            ELSE IF SyncEnabled(s) THEN "None" ELSE "AttributeError"
      [] name \in {"acreate", "adrop"} ->
            IF s.decl_base = "None" THEN "ValueError"
            ELSE IF AsyncEnabled(s) THEN "None" ELSE "AttributeError"
      [] name \in {"asession_unsafe", "asession_safe"} ->
            IF AsyncEnabled(s) THEN "session" ELSE "AttributeError"
      [] name = "session" ->
            IF SyncEnabled(s) THEN "session" ELSE "AttributeError"

\* Calling a function object on the Database.
CallFunc(s, f) ==
    IF f.check = "async" /\ ~AsyncEnabled(s) THEN "RuntimeError"
    ELSE IF f.check = "sync" /\ ~SyncEnabled(s) THEN "RuntimeError"
    ELSE Body(s, f.name)

\* A method or property defined under @_raise_on_uninitialized is used.
DbCall(name) ==
    /\ dbLast' = [method |-> name,
                  result |-> CallFunc(dbSettings, RaiseOnUninitialized(Func(name)))]
    /\ UNCHANGED dbSettings
    /\ DbFrame

DbNext == \E name \in AsyncMethods \cup SyncMethods \cup SyncProperties : DbCall(name)

DbStart == DbInit /\ DLParked /\ CLParked /\ HParked /\ LruParked /\ RepoParked /\ StParked /\ MsParked /\ BParked /\ JParked /\ TyParked /\ SgParked /\ PmParked /\ KfParked /\ DfParked /\ SsParked

DbSpec == DbStart /\ [][DbNext]_vars

(***************************************************************************)
(* Properties of Database                                                  *)
(***************************************************************************)
\* C30: acreate, adrop and __aenter__ raise RuntimeError when async_driver is
\* None, and create, drop and __enter__ raise RuntimeError when
\* enable_sync_engine is False.
C30_UninitializedRaises ==
    /\ (dbLast.method \in {"acreate", "adrop", "__aenter__"}
          /\ dbSettings.async_driver = "None") => dbLast.result = "RuntimeError"
    /\ (dbLast.method \in {"create", "drop", "__enter__"}
          /\ ~dbSettings.enable_sync_engine) => dbLast.result = "RuntimeError"

(***************************************************************************)
(* _safe, _asafe                                                           *)
(***************************************************************************)
\* The body returns, raises an Exception, or raises a BaseException that is
\* not an Exception.
SsBodyExits == {"ok", "ValueError", "CancelledError"}

\* The generator goes on to commit however the body exited.
AfterYieldCommits(exit) == "commit"

\* Where the generator goes on from its yield: to session.commit() when the
\* body returned, to `except:` when the body's exception is thrown in.
AfterYield(exit) == IF exit = "ok" THEN "commit" ELSE "except"

\* session = sm() / asm(): a session, or the factory raises.
SsEnter(async, opened) ==
    /\ ssPc = "idle"
    /\ ssAsync' = async
    /\ ssSession' = opened
    /\ ssPending' = {}
    /\ ssExit' = "none"
    /\ ssLog' = <<>>
    /\ ssOutcome' = IF opened THEN "none" ELSE "OperationalError"
    /\ ssPc' = IF opened THEN "body" ELSE "except"
    /\ UNCHANGED ssDb
    /\ SsFrame

\* The body uses the session: session.add(row).
SsAdd(row) ==
    /\ ssPc = "body"
    /\ row \notin ssPending \cup ssDb
    /\ ssPending' = ssPending \cup {row}
    /\ UNCHANGED <<ssAsync, ssPc, ssSession, ssDb, ssExit, ssLog, ssOutcome>>
    /\ SsFrame

\* The body exits.
SsBodyExit(exit) ==
    /\ ssPc = "body"
    /\ ssExit' = exit
    /\ ssPc' = AfterYield(exit)
    /\ ssOutcome' = IF exit = "ok" THEN "none" ELSE exit
    /\ UNCHANGED <<ssAsync, ssSession, ssPending, ssDb, ssLog>>
    /\ SsFrame

\* session.commit(): the pending rows are written, or the commit raises.
SsCommit(ok) ==
    /\ ssPc = "commit"
    /\ ssLog' = Append(ssLog, "commit")
    /\ IF ok
       THEN /\ ssDb' = ssDb \cup ssPending
            /\ ssPending' = {}
            /\ ssOutcome' = "returned"
            /\ ssPc' = "finally"
       ELSE /\ ssOutcome' = "IntegrityError"
            /\ ssPc' = "except"
            /\ UNCHANGED <<ssDb, ssPending>>
    /\ UNCHANGED <<ssAsync, ssSession, ssExit>>
    /\ SsFrame

\* except: if session is not None: session.rollback(); raise
SsExcept ==
    /\ ssPc = "except"
    /\ IF ssSession
       THEN /\ ssLog' = Append(ssLog, "rollback")
            /\ ssPending' = {}
       ELSE UNCHANGED <<ssLog, ssPending>>
    /\ ssPc' = "finally"
    /\ UNCHANGED <<ssAsync, ssSession, ssDb, ssExit, ssOutcome>>
    /\ SsFrame

\* finally: if session is not None: session.close()
SsFinally ==
    /\ ssPc = "finally"
    /\ ssLog' = IF ssSession THEN Append(ssLog, "close") ELSE ssLog
    /\ ssPc' = "done"
    /\ UNCHANGED <<ssAsync, ssSession, ssPending, ssDb, ssExit, ssOutcome>>
    /\ SsFrame

\* The `with` statement is over; another may follow.
SsLeave ==
    /\ ssPc = "done"
    /\ ssPc' = "idle"
    /\ UNCHANGED <<ssAsync, ssSession, ssPending, ssDb, ssExit, ssLog, ssOutcome>>
    /\ SsFrame

SsNext ==
    \/ \E async \in BOOLEAN, opened \in BOOLEAN : SsEnter(async, opened)
    \/ \E row \in SsRows : SsAdd(row)
    \/ \E exit \in SsBodyExits : SsBodyExit(exit)
    \/ \E ok \in BOOLEAN : SsCommit(ok)
    \/ SsExcept
    \/ SsFinally
    \/ SsLeave

SsStart == SsInit /\ DLParked /\ CLParked /\ HParked /\ LruParked /\ RepoParked /\ StParked /\ MsParked /\ BParked /\ JParked /\ TyParked /\ SgParked /\ PmParked /\ KfParked /\ DfParked /\ DbParked

SsSpec == SsStart /\ [][SsNext]_vars

(***************************************************************************)
(* Properties of session_safe / asession_safe                              *)
(***************************************************************************)
\* How often a call was made on the session.
Times(call) == Cardinality({i \in 1..Len(ssLog) : ssLog[i] = call})

\* C27: for a session that was obtained, once the block is over: a body that
\* exited normally is followed by exactly one commit; a commit that succeeded
\* by the close alone; a commit that raised, or a body that raised, by one
\* rollback and then the close, and that exception leaves the block; close is
\* the last call and made exactly once; and at no time is there a commit
\* after a body that raised.
C27_CommitOrRollbackThenClose ==
    /\ (ssSession /\ ssExit \notin {"none", "ok"}) => Times("commit") = 0
    /\ Times("close") <= 1
    /\ (ssSession /\ ssPc = "done") =>
        /\ Times("close") = 1 /\ ssLog[Len(ssLog)] = "close"
        /\ ssExit = "ok" =>
            /\ Times("commit") = 1
            /\ \/ ssLog = <<"commit", "close">> /\ ssOutcome = "returned"
               \/ ssLog = <<"commit", "rollback", "close">> /\ ssOutcome = "IntegrityError"
        /\ ssExit # "ok" =>
            /\ ssLog = <<"rollback", "close">>
            /\ ssOutcome = ssExit

C27_Witness ==
    /\ ssPc = "done" /\ ssSession /\ ssAsync
    /\ ssExit = "ok"
    /\ ssLog = <<"commit", "rollback", "close">>
    /\ ssOutcome = "IntegrityError"
    /\ ssDb # {}

====
